---- MODULE Spec2Model ----
(***************************************************************************)
(* Share & Earn short links: LinksService (links.service.ts) over the      *)
(* links and clicks tables.  Every await of the service is one atomic      *)
(* storage statement (or the fraud oracle's answer); the calls of          *)
(* createLink, recordClick and processClickReward interleave at their      *)
(* awaits.                                                                 *)
(***************************************************************************)
EXTENDS Integers, Sequences, FiniteSets, TLC

(* ---------------- program constants ---------------- *)
REWARD_CENTS == 5
MAX_GENERATION_ATTEMPTS == 3

(* ---------------- bounds of the model ---------------- *)
(* events issued by the environment: createLink, recordClick and getStats
   calls, repeated deliveries of a reward resolution, and storage statements
   of a reward resolution that it makes fail *)
MaxCalls == 3

(* generateShortCode() draws from this set; two codes make collisions happen *)
Codes == {"c1", "c2"}
(* request bodies handed to createLink: character sequences, " " is
   whitespace; one URL with surrounding whitespace and one without *)
InputUrls == {<<" ", "a", " ">>, <<"b">>}
(* the same with the first URL also in its bare form *)
RegistrationUrls == InputUrls \cup {<<"a">>}

(* errors a storage statement can fail with besides the unique violation
   23505 (SQLSTATE codes: connection failure, query cancelled) *)
StorageErrors == {"08006", "57014"}

(* calendar months in which clicks can be recorded, oldest first; a click's
   clickedAt is kept at month granularity as an index into this list *)
Months == <<[y |-> 2024, m |-> 12], [y |-> 2025, m |-> 1]>>
(* query parameters handed to getStats (page >= 1, limit >= 1 by the DTO) *)
Pages == {1, 2}
Limits == {1, 2}

VARIABLES links, clicks, cl, rc, pr, gs

vars == <<links, clicks, cl, rc, pr, gs>>

(* ---------------- pure helpers ---------------- *)
IsSpace(ch) == ch = " "

RECURSIVE TrimLeft(_)
TrimLeft(s) ==
  IF Len(s) > 0 /\ IsSpace(Head(s)) THEN TrimLeft(Tail(s)) ELSE s

RECURSIVE TrimRight(_)
TrimRight(s) ==
  IF Len(s) > 0 /\ IsSpace(s[Len(s)]) THEN TrimRight(SubSeq(s, 1, Len(s) - 1)) ELSE s

(* String.prototype.trim
   (Trim_Identity: the faulty variant that leaves the string as it is) *)
Trim_Identity(s) == s

Trim(s) == TrimRight(TrimLeft(s))

RECURSIVE SumOver(_, _)
SumOver(f, S) ==
  IF S = {} THEN 0
  ELSE LET x == CHOOSE y \in S : TRUE IN f[x] + SumOver(f, S \ {x})

(* ---------------- the tables ---------------- *)
(* calls made so far, with the reward statements that were made to fail *)
Redeliveries == {t \in 1..Len(pr) : pr[t].origin = "redelivery"}
SwallowedFailures == {t \in 1..Len(pr) : pr[t].caught}
Calls == Len(cl) + Len(rc) + Len(gs) + Cardinality(Redeliveries)
           + Cardinality(SwallowedFailures)

(* A row of links: the id is the row's index in the table.  Counters start at
   their column default 0.
   (NewLink_Clicked: the faulty variant whose totalClicks starts at 1) *)
NewLink_Clicked(code, url) ==
  [shortCode |-> code, targetUrl |-> url,
   totalClicks |-> 1, validClicks |-> 0, rewardAmountCents |-> 0]

NewLink(code, url) ==
  [shortCode |-> code, targetUrl |-> url,
   totalClicks |-> 0, validClicks |-> 0, rewardAmountCents |-> 0]

(* A row of clicks: isValid is nullable ("null"), rewarded defaults to false,
   rewardAmountCents to 0.
   (NewClick_Valid: the faulty variant whose isValid starts true) *)
NewClick_Valid(linkId, at) ==
  [linkId |-> linkId, isValid |-> "true", rewarded |-> FALSE, rewardAmountCents |-> 0,
   clickedAt |-> at]

NewClick(linkId, at) ==
  [linkId |-> linkId, isValid |-> "null", rewarded |-> FALSE, rewardAmountCents |-> 0,
   clickedAt |-> at]

(* the clock never runs backwards: a new click's month is not before the
   month of the latest click *)
ClockMonths ==
  {k \in 1..Len(Months) : \A c \in 1..Len(clicks) : clicks[c].clickedAt <= k}

LinkIds == 1..Len(links)
ClickIds == 1..Len(clicks)

(* linkRepository.findOneBy({ targetUrl }) / ({ shortCode }): 0 is null
   (FindByTargetUrl_Miss: the faulty variant that never finds a link) *)
FindByTargetUrl_Miss(url) == 0

FindByTargetUrl(url) ==
  IF \E l \in LinkIds : links[l].targetUrl = url
  THEN CHOOSE l \in LinkIds : links[l].targetUrl = url
  ELSE 0

FindByCode(code) ==
  IF \E l \in LinkIds : links[l].shortCode = code
  THEN CHOOSE l \in LinkIds : links[l].shortCode = code
  ELSE 0

(* The unique constraints on links.shortCode and links.targetUrl: an insert
   that would duplicate either fails with error 23505.
   (UniqueViolation_None: the faulty variant without the constraints) *)
UniqueViolation_None(code, url) == FALSE

UniqueViolation(code, url) ==
  \E l \in LinkIds : links[l].shortCode = code \/ links[l].targetUrl = url

(* linkRepository.increment({ id }, column, delta): one atomic UPDATE
   (Increment_Subtracts: the faulty variant that subtracts;
   Increment_Overwrites: the faulty variant that writes a value computed from
   a stale read, here the column default) *)
Increment_Overwrites(tbl, id, column, delta) ==
  [tbl EXCEPT ![id][column] = delta]

Increment_Subtracts(tbl, id, column, delta) ==
  [tbl EXCEPT ![id][column] = @ - delta]

Increment(tbl, id, column, delta) ==
  [tbl EXCEPT ![id][column] = @ + delta]

(* ---------------- createLink ---------------- *)
(* What createLink does when the insert raised 23505 and the lookup by
   targetUrl answered `existing` (0 is null), at attempt number `attempt`:
   the next position, and the attempt counter.
   (AfterConflict_NoLookup: the faulty variant that ignores the lookup;
   AfterConflict_NoLimit: the faulty variant whose loop has no bound) *)
AfterConflict_NoLimit(existing, attempt) ==
  IF existing # 0 THEN [pc |-> "done", attempt |-> attempt]
  ELSE [pc |-> "save", attempt |-> attempt + 1]

AfterConflict_NoLookup(existing, attempt) ==
  IF attempt + 1 < MAX_GENERATION_ATTEMPTS
  THEN [pc |-> "save", attempt |-> attempt + 1]
  ELSE [pc |-> "exhausted", attempt |-> attempt + 1]

AfterConflict(existing, attempt) ==
  IF existing # 0 THEN [pc |-> "done", attempt |-> attempt]
  ELSE IF attempt + 1 < MAX_GENERATION_ATTEMPTS
       THEN [pc |-> "save", attempt |-> attempt + 1]
       ELSE [pc |-> "exhausted", attempt |-> attempt + 1]

(* The error a rejected insert raises: 23505 with the constraints it
   violates ("23505:shortCode": the code is taken and no link has the URL;
   "23505:targetUrl": a link has the URL). *)
ConflictError(code, url) ==
  IF \E l \in LinkIds : links[l].targetUrl = url
  THEN "23505:targetUrl" ELSE "23505:shortCode"

(* error instanceof QueryFailedError && error.code === '23505' *)
IsUniqueViolationError(e) == e \in {"23505:shortCode", "23505:targetUrl"}

(* catch (error): the 23505 branch goes on to the lookup, anything else is
   rethrown (`throw error`)
   (AfterSaveError_Swallows: the faulty variant that treats every error as a
   conflict) *)
AfterSaveError_Swallows(e) == "lookup"

AfterSaveError(e) == IF IsUniqueViolationError(e) THEN "lookup" ELSE "threw"

(* the call's record after its save raised e *)
SaveRaised(call, e) ==
  [call EXCEPT !.pc = AfterSaveError(e), !.raised = e,
               !.error = IF AfterSaveError(e) = "threw" THEN e ELSE "none"]

(* One pass of the loop body up to the end of the await: create the entity
   with the normalized URL and a freshly generated code, then
   linkRepository.save(link).  `call` is the call's record; the result is the
   pair of the links table and the call's record after the statement. *)
SaveAttempt(call, code) ==
  IF UniqueViolation(code, call.normalizedUrl)
  THEN [links |-> links,
        call |-> SaveRaised(call, ConflictError(code, call.normalizedUrl))]
  ELSE [links |-> Append(links, NewLink(code, call.normalizedUrl)),
        call |-> [call EXCEPT !.pc = "done", !.result = Len(links) + 1,
                              !.shortCode = code, !.inserted = TRUE,
                              !.raised = "none"]]

(* the record of a call that has trimmed its argument and entered the loop *)
NewCreateCall(raw) ==
  [pc |-> "save", targetUrl |-> raw, normalizedUrl |-> Trim(raw),
   attempt |-> 0, result |-> 0, shortCode |-> "none", inserted |-> FALSE,
   raised |-> "none", error |-> "none"]

(* createLink(targetUrl): trim, enter the loop, first save *)
CreateLink(raw) ==
  /\ Calls < MaxCalls
  /\ \E code \in Codes :
       LET r == SaveAttempt(NewCreateCall(raw), code)
       IN /\ links' = r.links
          /\ cl' = Append(cl, r.call)
  /\ UNCHANGED <<clicks, rc, pr, gs>>

(* the save of a later pass of the loop (attempt >= 1) *)
CreateLinkRetry(i) ==
  /\ i \in 1..Len(cl)
  /\ cl[i].pc = "save"
  /\ \E code \in Codes :
       LET r == SaveAttempt(cl[i], code)
       IN /\ links' = r.links
          /\ cl' = [cl EXCEPT ![i] = r.call]
  /\ UNCHANGED <<clicks, rc, pr, gs>>

(* catch (23505): findOneBy({ targetUrl }), return existing or retry *)
CreateLinkLookup(i) ==
  /\ i \in 1..Len(cl)
  /\ cl[i].pc = "lookup"
  /\ LET existing == FindByTargetUrl(cl[i].normalizedUrl)
         nxt == AfterConflict(existing, cl[i].attempt)
     IN cl' = [cl EXCEPT ![i].pc = nxt.pc, ![i].attempt = nxt.attempt,
                         ![i].result = IF nxt.pc = "done" THEN existing ELSE 0,
                         ![i].shortCode = IF nxt.pc = "done"
                                          THEN links[existing].shortCode ELSE "none"]
  /\ UNCHANGED <<links, clicks, rc, pr, gs>>

(* createLink when the storage fails: the first save, a later save, or the
   lookup inside the catch rejects with an error other than 23505 *)
CreateLinkSaveFails(raw) ==
  /\ Calls < MaxCalls
  /\ \E e \in StorageErrors : cl' = Append(cl, SaveRaised(NewCreateCall(raw), e))
  /\ UNCHANGED <<links, clicks, rc, pr, gs>>

CreateLinkRetryFails(i) ==
  /\ i \in 1..Len(cl)
  /\ cl[i].pc = "save"
  /\ \E e \in StorageErrors : cl' = [cl EXCEPT ![i] = SaveRaised(cl[i], e)]
  /\ UNCHANGED <<links, clicks, rc, pr, gs>>

CreateLinkLookupFails(i) ==
  /\ i \in 1..Len(cl)
  /\ cl[i].pc = "lookup"
  /\ \E e \in StorageErrors : cl' = [cl EXCEPT ![i].pc = "threw", ![i].error = e]
  /\ UNCHANGED <<links, clicks, rc, pr, gs>>

(* ---------------- recordClick ---------------- *)
(* LinksController.redirect: the response before and after
   res.redirect(HttpStatus.FOUND, targetUrl); a rejected recordClick leaves
   the response to the framework's exception filter. *)
NoRedirect == [status |-> 0, location |-> <<>>]

RedirectTo(targetUrl) == [status |-> 302, location |-> targetUrl]

(* findByShortCode: `if (!link) throw new NotFoundException(...)`; l is the
   answer of findOneBy({ shortCode }), 0 for null
   (AfterFind_Proceeds: the faulty variant without the test) *)
AfterFind_Proceeds(l) == "saveClick"

AfterFind(l) == IF l = 0 THEN "notFound" ELSE "saveClick"

(* recordClick(shortCode) through findByShortCode: NotFoundException when no
   link has the code *)
RecordClick(code) ==
  /\ Calls < MaxCalls
  /\ LET l == FindByCode(code)
     IN rc' = Append(rc, [pc |-> AfterFind(l),
                          shortCode |-> code, linkId |-> l,
                          targetUrl |-> IF l = 0 THEN <<>> ELSE links[l].targetUrl,
                          clickId |-> 0, result |-> <<>>, redirect |-> NoRedirect,
                          error |-> "none"])
  /\ UNCHANGED <<links, clicks, cl, pr, gs>>

(* A processClickReward invocation up to its first await: the oracle has been
   called and has not answered.
   (NewRewardTask_FirstLink: the faulty variant that always names link 1) *)
NewRewardTask_FirstLink(clickId, linkId, origin) ==
  [clickId |-> clickId, linkId |-> 1, pc |-> "oracle", oracle |-> "pending",
   affected |-> 0, incValid |-> 0, incReward |-> 0, origin |-> origin,
   caught |-> FALSE, failedAt |-> "none"]

NewRewardTask(clickId, linkId, origin) ==
  [clickId |-> clickId, linkId |-> linkId, pc |-> "oracle", oracle |-> "pending",
   affected |-> 0, incValid |-> 0, incReward |-> 0, origin |-> origin,
   caught |-> FALSE, failedAt |-> "none"]

(* clickRepository.save(create({ linkId }))
   (RecordClickSave_StartsReward: the faulty variant that starts the reward
   resolution right after the insert, before the increment) *)
RecordClickSave_StartsReward(i) ==
  /\ i \in 1..Len(rc)
  /\ rc[i].pc = "saveClick"
  /\ \E at \in ClockMonths : clicks' = Append(clicks, NewClick(rc[i].linkId, at))
  /\ rc' = [rc EXCEPT ![i].pc = "increment", ![i].clickId = Len(clicks) + 1]
  /\ pr' = Append(pr, NewRewardTask(Len(clicks) + 1, rc[i].linkId, "recordClick"))
  /\ UNCHANGED <<links, cl, gs>>

RecordClickSave(i) ==
  /\ i \in 1..Len(rc)
  /\ rc[i].pc = "saveClick"
  /\ \E at \in ClockMonths : clicks' = Append(clicks, NewClick(rc[i].linkId, at))
  /\ rc' = [rc EXCEPT ![i].pc = "increment", ![i].clickId = Len(clicks) + 1]
  /\ UNCHANGED <<links, cl, pr, gs>>

(* linkRepository.increment({ id }, 'totalClicks', 1)
   (RecordClickIncrement_Skips: the faulty variant without the increment;
    RecordClickIncrement_ByTwo: the faulty variant that adds 2) *)
RecordClickIncrement_Skips(i) ==
  /\ i \in 1..Len(rc)
  /\ rc[i].pc = "increment"
  /\ rc' = [rc EXCEPT ![i].pc = "schedule"]
  /\ UNCHANGED <<links, clicks, cl, pr, gs>>

RecordClickIncrement_ByTwo(i) ==
  /\ i \in 1..Len(rc)
  /\ rc[i].pc = "increment"
  /\ links' = Increment(links, rc[i].linkId, "totalClicks", 2)
  /\ rc' = [rc EXCEPT ![i].pc = "schedule"]
  /\ UNCHANGED <<clicks, cl, pr, gs>>

RecordClickIncrement(i) ==
  /\ i \in 1..Len(rc)
  /\ rc[i].pc = "increment"
  /\ links' = Increment(links, rc[i].linkId, "totalClicks", 1)
  /\ rc' = [rc EXCEPT ![i].pc = "schedule"]
  /\ UNCHANGED <<clicks, cl, pr, gs>>

(* The reward tasks of a click *)
TasksOf(c) == {t \in 1..Len(pr) : pr[t].clickId = c}

(* `void this.processClickReward(...)`: the promise is dropped, not awaited, so
   recordClick reaches `return link.targetUrl` in the same turn
   (AfterSchedule_Awaits: the faulty variant that awaits the promise) *)
AfterSchedule_Awaits == "awaitReward"

AfterSchedule == "done"

(* void this.processClickReward(click.id, link.id); return link.targetUrl
   (RecordClickScheduleReturn_Twice: the faulty variant that starts the
   resolution twice) *)
RecordClickScheduleReturn_Twice(i) ==
  /\ i \in 1..Len(rc)
  /\ rc[i].pc = "schedule"
  /\ pr' = pr \o <<NewRewardTask(rc[i].clickId, rc[i].linkId, "recordClick"),
                   NewRewardTask(rc[i].clickId, rc[i].linkId, "recordClick")>>
  /\ rc' = [rc EXCEPT ![i].pc = "done", ![i].result = rc[i].targetUrl]
  /\ UNCHANGED <<links, clicks, cl, gs>>

RecordClickScheduleReturn(i) ==
  /\ i \in 1..Len(rc)
  /\ rc[i].pc = "schedule"
  /\ pr' = Append(pr, NewRewardTask(rc[i].clickId, rc[i].linkId, "recordClick"))
  /\ rc' = [rc EXCEPT ![i].pc = AfterSchedule,
                      ![i].result = IF AfterSchedule = "done" THEN rc[i].targetUrl ELSE <<>>]
  /\ UNCHANGED <<links, clicks, cl, gs>>

(* LinksController.redirect after `await this.linksService.recordClick(...)`:
   the continuation is a promise reaction, queued when recordClick returns; it
   sends res.redirect(302, targetUrl) with the value recordClick returned *)
Redirect(i) ==
  /\ i \in 1..Len(rc)
  /\ rc[i].pc = "done"
  /\ rc[i].redirect = NoRedirect
  /\ rc' = [rc EXCEPT ![i].redirect = RedirectTo(rc[i].result)]
  /\ UNCHANGED <<links, clicks, cl, pr, gs>>

(* recordClick when the storage fails: the link lookup (findByShortCode's
   findOneBy), the click insert or the totalClicks increment rejects;
   recordClick has no try, so the rejection is the call's own and the
   statements after the await do not run.  A rejected statement leaves the
   tables as they were.
   (RecordClickIncrementFails_Continues: the faulty variant that swallows the
   error and goes on) *)
RecordClickFindFails(code) ==
  /\ Calls < MaxCalls
  /\ \E e \in StorageErrors :
       rc' = Append(rc, [pc |-> "threw", shortCode |-> code, linkId |-> 0,
                         targetUrl |-> <<>>, clickId |-> 0, result |-> <<>>,
                         redirect |-> NoRedirect, error |-> e])
  /\ UNCHANGED <<links, clicks, cl, pr, gs>>

RecordClickSaveFails(i) ==
  /\ i \in 1..Len(rc)
  /\ rc[i].pc = "saveClick"
  /\ \E e \in StorageErrors : rc' = [rc EXCEPT ![i].pc = "threw", ![i].error = e]
  /\ UNCHANGED <<links, clicks, cl, pr, gs>>

RecordClickIncrementFails_Continues(i) ==
  /\ i \in 1..Len(rc)
  /\ rc[i].pc = "increment"
  /\ rc' = [rc EXCEPT ![i].pc = "schedule"]
  /\ UNCHANGED <<links, clicks, cl, pr, gs>>

RecordClickIncrementFails(i) ==
  /\ i \in 1..Len(rc)
  /\ rc[i].pc = "increment"
  /\ \E e \in StorageErrors : rc' = [rc EXCEPT ![i].pc = "threw", ![i].error = e]
  /\ UNCHANGED <<links, clicks, cl, pr, gs>>

(* ---------------- processClickReward ---------------- *)
(* A second delivery of the reward resolution of a click whose resolution
   recordClick has started, with the same arguments. *)
Redeliver(t) ==
  /\ t \in 1..Len(pr)
  /\ pr[t].origin = "recordClick"
  /\ Calls < MaxCalls
  /\ pr' = Append(pr, NewRewardTask(pr[t].clickId, pr[t].linkId, "redelivery"))
  /\ UNCHANGED <<links, clicks, cl, rc, gs>>

(* The branch taken on the oracle's outcome: `if (isValid)`, else, catch
   (faulty variants: AfterOracle_FailurePropagates has no catch,
   AfterOracle_InvalidDropped has no else branch,
   AfterOracle_Retries asks the oracle again after a failure) *)
AfterOracle_Retries(outcome) ==
  CASE outcome = "valid" -> "condUpdate"
    [] outcome = "invalid" -> "markInvalid"
    [] outcome = "failed" -> "oracle"

AfterOracle_InvalidDropped(outcome) ==
  CASE outcome = "valid" -> "condUpdate"
    [] outcome = "invalid" -> "done"
    [] outcome = "failed" -> "done"

AfterOracle_FailurePropagates(outcome) ==
  CASE outcome = "valid" -> "condUpdate"
    [] outcome = "invalid" -> "markInvalid"
    [] outcome = "failed" -> "threw"

AfterOracle(outcome) ==
  CASE outcome = "valid" -> "condUpdate"
    [] outcome = "invalid" -> "markInvalid"
    [] outcome = "failed" -> "done"

(* await validateClick() resolves true or false *)
OracleReturns(t) ==
  /\ t \in 1..Len(pr)
  /\ pr[t].pc = "oracle"
  /\ \E outcome \in {"valid", "invalid"} :
       pr' = [pr EXCEPT ![t].oracle = outcome, ![t].pc = AfterOracle(outcome)]
  /\ UNCHANGED <<links, clicks, cl, rc, gs>>

(* await validateClick() rejects (throws or times out): caught and swallowed *)
OracleFails(t) ==
  /\ t \in 1..Len(pr)
  /\ pr[t].pc = "oracle"
  /\ pr' = [pr EXCEPT ![t].oracle = "failed", ![t].pc = AfterOracle("failed")]
  /\ UNCHANGED <<links, clicks, cl, rc, gs>>

(* .where('id = :id AND rewarded = false')
   (RewardGuard_Always: the faulty variant without `AND rewarded = false`) *)
RewardGuard_Always(click) == TRUE

RewardGuard(click) == click.rewarded = FALSE

(* .set({ isValid: true, rewarded: true, rewardAmountCents: REWARD_CENTS })
   (RewardPatch_NoAmount: the faulty variant that leaves the amount) *)
RewardPatch_NoAmount(click) ==
  [click EXCEPT !.isValid = "true", !.rewarded = TRUE]

RewardPatch(click) ==
  [click EXCEPT !.isValid = "true", !.rewarded = TRUE, !.rewardAmountCents = REWARD_CENTS]

(* if (result.affected && result.affected > 0)
   (IncrementsDue_Always: the faulty variant without the test) *)
IncrementsDue_Always(affected) == TRUE

IncrementsDue(affected) == affected > 0

(* The conditional UPDATE ... RETURNING id: one atomic statement *)
RewardConditionalUpdate(t) ==
  /\ t \in 1..Len(pr)
  /\ pr[t].pc = "condUpdate"
  /\ LET c == pr[t].clickId
         affected == IF RewardGuard(clicks[c]) THEN 1 ELSE 0
     IN /\ clicks' = IF affected = 1 THEN [clicks EXCEPT ![c] = RewardPatch(@)] ELSE clicks
        /\ pr' = [pr EXCEPT ![t].affected = affected,
                            ![t].pc = IF IncrementsDue(affected) THEN "incValid" ELSE "done"]
  /\ UNCHANGED <<links, cl, rc, gs>>

(* linkRepository.increment({ id: linkId }, 'validClicks', 1)
   (RewardIncrementValid_Skips: the faulty variant without the increment) *)
RewardIncrementValid_Skips(t) ==
  /\ t \in 1..Len(pr)
  /\ pr[t].pc = "incValid"
  /\ pr' = [pr EXCEPT ![t].pc = "incReward"]
  /\ UNCHANGED <<links, clicks, cl, rc, gs>>

RewardIncrementValid(t) ==
  /\ t \in 1..Len(pr)
  /\ pr[t].pc = "incValid"
  /\ links' = Increment(links, pr[t].linkId, "validClicks", 1)
  /\ pr' = [pr EXCEPT ![t].incValid = @ + 1, ![t].pc = "incReward"]
  /\ UNCHANGED <<clicks, cl, rc, gs>>

(* linkRepository.increment({ id: linkId }, 'rewardAmountCents', REWARD_CENTS)
   (RewardIncrementAmount_Double: the faulty variant that adds the amount
   twice) *)
RewardIncrementAmount_Double(t) ==
  /\ t \in 1..Len(pr)
  /\ pr[t].pc = "incReward"
  /\ links' = Increment(links, pr[t].linkId, "rewardAmountCents", 2 * REWARD_CENTS)
  /\ pr' = [pr EXCEPT ![t].incReward = @ + 2 * REWARD_CENTS, ![t].pc = "done"]
  /\ UNCHANGED <<clicks, cl, rc, gs>>

RewardIncrementAmount(t) ==
  /\ t \in 1..Len(pr)
  /\ pr[t].pc = "incReward"
  /\ links' = Increment(links, pr[t].linkId, "rewardAmountCents", REWARD_CENTS)
  /\ pr' = [pr EXCEPT ![t].incReward = @ + REWARD_CENTS, ![t].pc = "done"]
  /\ UNCHANGED <<clicks, cl, rc, gs>>

(* clickRepository.update(clickId, { isValid: false })
   (InvalidPatch_ClearsReward: the faulty variant that also resets the reward) *)
InvalidPatch_ClearsReward(click) ==
  [click EXCEPT !.isValid = "false", !.rewarded = FALSE, !.rewardAmountCents = 0]

InvalidPatch(click) == [click EXCEPT !.isValid = "false"]

RewardMarkInvalid(t) ==
  /\ t \in 1..Len(pr)
  /\ pr[t].pc = "markInvalid"
  /\ clicks' = [clicks EXCEPT ![pr[t].clickId] = InvalidPatch(@)]
  /\ pr' = [pr EXCEPT ![t].pc = "done"]
  /\ UNCHANGED <<links, cl, rc, gs>>

(* catch { }: the catch binds no error; whatever a statement inside the try
   rejects with is swallowed and processClickReward resolves normally
   (OnRewardError_Raises: the faulty variant without the catch) *)
OnRewardError_Raises == [pc |-> "threw", caught |-> FALSE]

OnRewardError == [pc |-> "done", caught |-> TRUE]

(* processClickReward when the storage fails: the statement the task is about
   to issue (guarded update, either increment, or the invalid-mark update)
   rejects and leaves the tables as they were *)
RewardStorageFails(t) ==
  /\ t \in 1..Len(pr)
  /\ pr[t].pc \in {"condUpdate", "incValid", "incReward", "markInvalid"}
  /\ Calls < MaxCalls
  /\ pr' = [pr EXCEPT ![t].pc = OnRewardError.pc,
                      ![t].caught = OnRewardError.caught,
                      ![t].failedAt = pr[t].pc]
  /\ UNCHANGED <<links, clicks, cl, rc, gs>>

(* ---------------- getStats ---------------- *)
(* Math.ceil(totalLinks / limit), limit >= 1
   (CeilDiv_Floor: the faulty variant that rounds down) *)
CeilDiv_Floor(a, b) == a \div b

CeilDiv(a, b) == (a + b - 1) \div b

(* cents / 100 as a decimal amount: whole units and hundredths *)
ToDollars(cents) == [units |-> cents \div 100, hundredths |-> cents % 100]

(* TO_CHAR(DATE_TRUNC('month', clickedAt), 'MM/YYYY'): the digits of the text,
   in order (the "/" between them is the same in every text) *)
MonthText(k) ==
  LET mo == Months[k]
  IN <<mo.m \div 10, mo.m % 10,
       mo.y \div 1000, (mo.y \div 100) % 10, (mo.y \div 10) % 10, mo.y % 10>>

(* text comparison: a sorts before b *)
TextLess(a, b) ==
  \E k \in 1..Len(a) :
    /\ k <= Len(b)
    /\ a[k] < b[k]
    /\ \A j \in 1..(k - 1) : a[j] = b[j]

(* ORDER BY month DESC on the month text *)
RECURSIVE SortByTextDesc(_)
SortByTextDesc(S) ==
  IF S = {} THEN <<>>
  ELSE LET top == CHOOSE k \in S : \A j \in S \ {k} : TextLess(MonthText(j), MonthText(k))
       IN <<top>> \o SortByTextDesc(S \ {top})

(* find({ order: { createdAt: 'DESC' }, skip, take }): rows are created in
   table order, so newest first is the table reversed *)
NewestFirst == [k \in 1..Len(links) |-> Len(links) + 1 - k]

(* skip and take over the ordered rows
   (PageIds_NoSkip: the faulty variant that ignores skip) *)
PageIds_NoSkip(skip, take) ==
  LET hi == IF take < Len(links) THEN take ELSE Len(links)
  IN [k \in 1..hi |-> NewestFirst[k]]

PageIds(skip, take) ==
  LET lo == skip + 1
      hi == IF skip + take < Len(links) THEN skip + take ELSE Len(links)
  IN IF lo > hi THEN <<>> ELSE [k \in 1..(hi - lo + 1) |-> NewestFirst[lo + k - 1]]

(* the entities a find returns: each row as it is at the time of the query
   (Entity_Recount: the faulty variant that counts the link's click rows) *)
Entity_Recount(l) ==
  [id |-> l, targetUrl |-> links[l].targetUrl,
   totalClicks |-> Cardinality({c \in 1..Len(clicks) : clicks[c].linkId = l}),
   rewardAmountCents |-> links[l].rewardAmountCents]

Entity(l) ==
  [id |-> l, targetUrl |-> links[l].targetUrl, totalClicks |-> links[l].totalClicks,
   rewardAmountCents |-> links[l].rewardAmountCents]

(* COALESCE(SUM(rewardAmountCents) FILTER (WHERE isValid = true), 0) of the
   clicks of link l in month k *)
EarningCents(l, k) ==
  LET G == {c \in 1..Len(clicks) : clicks[c].linkId = l /\ clicks[c].clickedAt = k
                                  /\ clicks[c].isValid = "true"}
  IN SumOver([c \in G |-> clicks[c].rewardAmountCents], G)

(* the rows of the aggregation that belong to link l, in the query's order:
   one per month in which l has a click (`at` is the month a row's text
   stands for)
   (MonthlyBreakdownOf_ValidOnly: the faulty variant that selects the valid
   clicks with WHERE instead of FILTER) *)
MonthlyBreakdownOf_ValidOnly(l) ==
  LET present == {k \in 1..Len(Months) :
                    \E c \in 1..Len(clicks) : /\ clicks[c].linkId = l
                                              /\ clicks[c].clickedAt = k
                                              /\ clicks[c].isValid = "true"}
      order == SortByTextDesc(present)
  IN [n \in 1..Len(order) |->
        [month |-> MonthText(order[n]), at |-> order[n],
         earning |-> ToDollars(EarningCents(l, order[n]))]]

MonthlyBreakdownOf(l) ==
  LET present == {k \in 1..Len(Months) :
                    \E c \in 1..Len(clicks) : clicks[c].linkId = l /\ clicks[c].clickedAt = k}
      order == SortByTextDesc(present)
  IN [n \in 1..Len(order) |->
        [month |-> MonthText(order[n]), at |-> order[n],
         earning |-> ToDollars(EarningCents(l, order[n]))]]

(* getStats(page, limit) through linkRepository.count().  The call's record
   keeps the meta it computed, the entities of its page, whether the
   aggregation query was issued, and the data of the response. *)
GetStats(page, limit) ==
  /\ Calls < MaxCalls
  /\ gs' = Append(gs, [pc |-> "find", page |-> page, limit |-> limit,
                       totalLinks |-> Len(links),
                       totalPages |-> CeilDiv(Len(links), limit),
                       links |-> <<>>, data |-> <<>>, aggregated |-> FALSE])
  /\ UNCHANGED <<links, clicks, cl, rc, pr>>

(* linkRepository.find(...); an empty page is answered at once *)
GetStatsFind(i) ==
  /\ i \in 1..Len(gs)
  /\ gs[i].pc = "find"
  /\ LET ids == PageIds((gs[i].page - 1) * gs[i].limit, gs[i].limit)
     IN gs' = [gs EXCEPT ![i].links = [k \in 1..Len(ids) |-> Entity(ids[k])],
                         ![i].pc = IF Len(ids) = 0 THEN "done" ELSE "aggregate"]
  /\ UNCHANGED <<links, clicks, cl, rc, pr>>

(* the monthly aggregation over clicks, then the assembly of the response *)
GetStatsAggregate(i) ==
  /\ i \in 1..Len(gs)
  /\ gs[i].pc = "aggregate"
  /\ gs' = [gs EXCEPT ![i].pc = "done", ![i].aggregated = TRUE,
                      ![i].data = [k \in 1..Len(gs[i].links) |->
                         [url |-> gs[i].links[k].targetUrl,
                          total_clicks |-> gs[i].links[k].totalClicks,
                          total_earning |-> ToDollars(gs[i].links[k].rewardAmountCents),
                          monthly_breakdown |-> MonthlyBreakdownOf(gs[i].links[k].id)]]]
  /\ UNCHANGED <<links, clicks, cl, rc, pr>>

(* ---------------- specification ---------------- *)
(* The event loop.  The controller's continuation after recordClick is a
   promise reaction: it runs before the process takes the next event (a new
   request, the completion of another call's storage statement, a timer), so
   between recordClick's return and res.redirect only the reactions queued in
   the same turn can run, and these belong to the reward task recordClick has
   just started (with an oracle or a storage that answers at once the task
   gets ahead of the redirect).
   Unsent: the calls that have returned to a controller that has not resumed;
   Settled: no such call; SameTurn(t): task t may run now. *)
Unsent == {i \in 1..Len(rc) : rc[i].pc = "done" /\ rc[i].redirect = NoRedirect}

Settled == Unsent = {}

SameTurn(t) ==
  \A i \in Unsent : pr[t].clickId = rc[i].clickId /\ pr[t].origin = "recordClick"

Init ==
  /\ links = <<>>
  /\ clicks = <<>>
  /\ cl = <<>>
  /\ rc = <<>>
  /\ pr = <<>>
  /\ gs = <<>>

Next ==
  \/ Settled /\ \E raw \in InputUrls : CreateLink(raw)
  \/ Settled /\ \E i \in 1..Len(cl) : CreateLinkRetry(i)
  \/ Settled /\ \E i \in 1..Len(cl) : CreateLinkLookup(i)
  \/ Settled /\ \E code \in Codes : RecordClick(code)
  \/ Settled /\ \E i \in 1..Len(rc) : RecordClickSave(i)
  \/ Settled /\ \E i \in 1..Len(rc) : RecordClickIncrement(i)
  \/ Settled /\ \E i \in 1..Len(rc) : RecordClickScheduleReturn(i)
  \/ \E i \in 1..Len(rc) : Redirect(i)
  \/ Settled /\ \E t \in 1..Len(pr) : Redeliver(t)
  \/ \E t \in 1..Len(pr) : SameTurn(t) /\ OracleReturns(t)
  \/ \E t \in 1..Len(pr) : SameTurn(t) /\ OracleFails(t)
  \/ Settled /\ \E t \in 1..Len(pr) : RewardConditionalUpdate(t)
  \/ Settled /\ \E t \in 1..Len(pr) : RewardIncrementValid(t)
  \/ Settled /\ \E t \in 1..Len(pr) : RewardIncrementAmount(t)
  \/ Settled /\ \E t \in 1..Len(pr) : RewardMarkInvalid(t)
  \/ Settled /\ \E t \in 1..Len(pr) : RewardStorageFails(t)
  \/ Settled /\ \E page \in Pages, limit \in Limits : GetStats(page, limit)
  \/ Settled /\ \E i \in 1..Len(gs) : GetStatsFind(i)
  \/ Settled /\ \E i \in 1..Len(gs) : GetStatsAggregate(i)

Spec == Init /\ [][Next]_vars

(* createLink calls alone, handed a URL with and without its surrounding
   whitespace *)
NextRegistrations ==
  \/ \E raw \in RegistrationUrls : CreateLink(raw)
  \/ \E i \in 1..Len(cl) : CreateLinkRetry(i)
  \/ \E i \in 1..Len(cl) : CreateLinkLookup(i)

SpecRegistrations == Init /\ [][NextRegistrations]_vars

(* createLink calls against a storage whose statements can fail *)
NextFaults ==
  \/ \E raw \in InputUrls : CreateLink(raw)
  \/ \E i \in 1..Len(cl) : CreateLinkRetry(i)
  \/ \E i \in 1..Len(cl) : CreateLinkLookup(i)
  \/ \E raw \in InputUrls : CreateLinkSaveFails(raw)
  \/ \E i \in 1..Len(cl) : CreateLinkRetryFails(i)
  \/ \E i \in 1..Len(cl) : CreateLinkLookupFails(i)

SpecFaults == Init /\ [][NextFaults]_vars

(* The service over a store that holds one registered link, after one
   redirect of the link has been served and its click rewarded: the rows, the
   record of that recordClick call and of its reward task.  Requests arrive
   whenever they arrive: any number of redirects, repeated deliveries of a
   reward resolution and statistics queries overlap. *)
InitOneLink ==
  /\ links = <<[NewLink("c1", <<"a">>) EXCEPT !.totalClicks = 1, !.validClicks = 1,
                                              !.rewardAmountCents = REWARD_CENTS]>>
  /\ clicks = <<RewardPatch(NewClick(1, 1))>>
  /\ cl = <<>>
  /\ rc = <<[pc |-> "done", shortCode |-> "c1", linkId |-> 1, targetUrl |-> <<"a">>,
             clickId |-> 1, result |-> <<"a">>, redirect |-> RedirectTo(<<"a">>),
             error |-> "none"]>>
  /\ pr = <<[NewRewardTask(1, 1, "recordClick") EXCEPT
               !.pc = "done", !.oracle = "valid", !.affected = 1,
               !.incValid = 1, !.incReward = REWARD_CENTS]>>
  /\ gs = <<>>

(* one registered link whose first redirect has been served; the oracle has
   answered valid to the reward resolution of its click, whose guarded
   update is still to be issued *)
InitAnswered ==
  /\ links = <<[NewLink("c1", <<"a">>) EXCEPT !.totalClicks = 1]>>
  /\ clicks = <<NewClick(1, 1)>>
  /\ cl = <<>>
  /\ rc = <<[pc |-> "done", shortCode |-> "c1", linkId |-> 1, targetUrl |-> <<"a">>,
             clickId |-> 1, result |-> <<"a">>, redirect |-> RedirectTo(<<"a">>),
             error |-> "none"]>>
  /\ pr = <<[NewRewardTask(1, 1, "recordClick") EXCEPT !.pc = AfterOracle("valid"),
                                                       !.oracle = "valid"]>>
  /\ gs = <<>>

(* the same as InitOneLink with a second registered link that has not been
   clicked *)
InitStored ==
  /\ links = <<[NewLink("c1", <<"a">>) EXCEPT !.totalClicks = 1, !.validClicks = 1,
                                              !.rewardAmountCents = REWARD_CENTS],
               NewLink("c2", <<"b">>)>>
  /\ clicks = <<RewardPatch(NewClick(1, 1))>>
  /\ cl = <<>>
  /\ rc = <<[pc |-> "done", shortCode |-> "c1", linkId |-> 1, targetUrl |-> <<"a">>,
             clickId |-> 1, result |-> <<"a">>, redirect |-> RedirectTo(<<"a">>),
             error |-> "none"]>>
  /\ pr = <<[NewRewardTask(1, 1, "recordClick") EXCEPT
               !.pc = "done", !.oracle = "valid", !.affected = 1,
               !.incValid = 1, !.incReward = REWARD_CENTS]>>
  /\ gs = <<>>

NextStored ==
  \/ Settled /\ \E code \in Codes : RecordClick(code)
  \/ Settled /\ \E i \in 1..Len(rc) : RecordClickSave(i)
  \/ Settled /\ \E i \in 1..Len(rc) : RecordClickIncrement(i)
  \/ Settled /\ \E i \in 1..Len(rc) : RecordClickScheduleReturn(i)
  \/ \E i \in 1..Len(rc) : Redirect(i)
  \/ Settled /\ \E t \in 1..Len(pr) : Redeliver(t)
  \/ \E t \in 1..Len(pr) : SameTurn(t) /\ OracleReturns(t)
  \/ \E t \in 1..Len(pr) : SameTurn(t) /\ OracleFails(t)
  \/ Settled /\ \E t \in 1..Len(pr) : RewardConditionalUpdate(t)
  \/ Settled /\ \E t \in 1..Len(pr) : RewardIncrementValid(t)
  \/ Settled /\ \E t \in 1..Len(pr) : RewardIncrementAmount(t)
  \/ Settled /\ \E t \in 1..Len(pr) : RewardMarkInvalid(t)
  \/ Settled /\ \E page \in Pages, limit \in Limits : GetStats(page, limit)
  \/ Settled /\ \E i \in 1..Len(gs) : GetStatsFind(i)
  \/ Settled /\ \E i \in 1..Len(gs) : GetStatsAggregate(i)

SpecStored == InitStored /\ [][NextStored]_vars

(* Redirects over the stored links against a storage whose link lookup, click
   insert and totalClicks increment can fail. *)
NextClickFaults ==
  \/ Settled /\ \E code \in Codes : RecordClick(code)
  \/ Settled /\ \E code \in Codes : RecordClickFindFails(code)
  \/ Settled /\ \E i \in 1..Len(rc) : RecordClickSave(i)
  \/ Settled /\ \E i \in 1..Len(rc) : RecordClickSaveFails(i)
  \/ Settled /\ \E i \in 1..Len(rc) : RecordClickIncrement(i)
  \/ Settled /\ \E i \in 1..Len(rc) : RecordClickIncrementFails(i)
  \/ Settled /\ \E i \in 1..Len(rc) : RecordClickScheduleReturn(i)
  \/ \E i \in 1..Len(rc) : Redirect(i)
  \/ \E t \in 1..Len(pr) : SameTurn(t) /\ OracleReturns(t)
  \/ \E t \in 1..Len(pr) : SameTurn(t) /\ OracleFails(t)
  \/ Settled /\ \E t \in 1..Len(pr) : RewardConditionalUpdate(t)
  \/ Settled /\ \E t \in 1..Len(pr) : RewardIncrementValid(t)
  \/ Settled /\ \E t \in 1..Len(pr) : RewardIncrementAmount(t)
  \/ Settled /\ \E t \in 1..Len(pr) : RewardMarkInvalid(t)

SpecClickFaults == InitOneLink /\ [][NextClickFaults]_vars

(* Redirects and reward resolutions over the stored links against a storage
   whose reward statements can fail. *)
NextRewardFaults ==
  \/ Settled /\ \E code \in Codes : RecordClick(code)
  \/ Settled /\ \E i \in 1..Len(rc) : RecordClickSave(i)
  \/ Settled /\ \E i \in 1..Len(rc) : RecordClickIncrement(i)
  \/ Settled /\ \E i \in 1..Len(rc) : RecordClickScheduleReturn(i)
  \/ \E i \in 1..Len(rc) : Redirect(i)
  \/ Settled /\ \E t \in 1..Len(pr) : Redeliver(t)
  \/ \E t \in 1..Len(pr) : SameTurn(t) /\ OracleReturns(t)
  \/ \E t \in 1..Len(pr) : SameTurn(t) /\ OracleFails(t)
  \/ Settled /\ \E t \in 1..Len(pr) : RewardConditionalUpdate(t)
  \/ Settled /\ \E t \in 1..Len(pr) : RewardIncrementValid(t)
  \/ Settled /\ \E t \in 1..Len(pr) : RewardIncrementAmount(t)
  \/ Settled /\ \E t \in 1..Len(pr) : RewardMarkInvalid(t)
  \/ Settled /\ \E t \in 1..Len(pr) : RewardStorageFails(t)

SpecRewardFaults == InitAnswered /\ [][NextRewardFaults]_vars

(* The event loop and the detached reward task are scheduled fairly: a
   controller whose recordClick has returned resumes, and once the oracle has
   answered, the storage statement the task is waiting to issue is
   eventually issued (and, in this specification, succeeds). *)
RewardFairness ==
  /\ WF_vars(\E i \in 1..Len(rc) : Redirect(i))
  /\ WF_vars(Settled /\ \E t \in 1..Len(pr) : RewardConditionalUpdate(t))
  /\ WF_vars(Settled /\ \E t \in 1..Len(pr) : RewardMarkInvalid(t))

SpecStoredFair == InitOneLink /\ [][NextStored]_vars /\ RewardFairness

TypeOK ==
  /\ \A l \in LinkIds : links[l].shortCode \in Codes
  /\ \A c \in ClickIds : clicks[c].linkId \in LinkIds /\ clicks[c].isValid \in {"null", "true", "false"}
  /\ \A t \in 1..Len(pr) : pr[t].clickId \in ClickIds /\ pr[t].linkId \in LinkIds

(* ---------------- vocabulary of the properties ---------------- *)
(* no reward resolution of click c is still running *)
Quiescent(c) == \A t \in TasksOf(c) : pr[t].pc = "done"

(* the link increments made by the reward resolutions of click c, as each
   task recorded them when it executed the increment *)
ValidIncrementsFor(c) == SumOver([t \in TasksOf(c) |-> pr[t].incValid], TasksOf(c))
CentsIncrementsFor(c) == SumOver([t \in TasksOf(c) |-> pr[t].incReward], TasksOf(c))

(* the same, per link the increments were applied to *)
TasksOn(l) == {t \in 1..Len(pr) : pr[t].linkId = l}
ValidIncrementsOn(l) == SumOver([t \in TasksOn(l) |-> pr[t].incValid], TasksOn(l))
CentsIncrementsOn(l) == SumOver([t \in TasksOn(l) |-> pr[t].incReward], TasksOn(l))

ClicksOf(l) == {c \in ClickIds : clicks[c].linkId = l}
RewardedClicksOf(l) == {c \in ClicksOf(l) : clicks[c].rewarded}
ValidTasksOf(c) == {t \in TasksOf(c) : pr[t].oracle = "valid"}

(* ---------------- C1 ---------------- *)
(* the resolutions of click c that swallowed the failure of a storage
   statement *)
FailedTasksFor(c) == {t \in TasksOf(c) : pr[t].caught}

(* C1 as stated: however many reward resolutions run for a click, in any
   interleaving, once every resolution whose oracle answered valid has
   finished (and there is one), validClicks has been incremented exactly once
   and rewardAmountCents by exactly 5 for that click; a resolution whose
   conditional update matched no row has made no increment. *)
C1_Original ==
  /\ \A c \in ClickIds :
       /\ ValidIncrementsFor(c) <= 1
       /\ CentsIncrementsFor(c) <= REWARD_CENTS
       /\ \A t \in TasksOf(c) :
            /\ pr[t].linkId = clicks[c].linkId
            /\ (pr[t].affected = 0 => pr[t].incValid = 0 /\ pr[t].incReward = 0)
       /\ (ValidTasksOf(c) # {} /\ \A t \in ValidTasksOf(c) : pr[t].pc = "done")
            => /\ ValidIncrementsFor(c) = 1
               /\ CentsIncrementsFor(c) = REWARD_CENTS
  /\ \A l \in LinkIds :
       /\ links[l].validClicks = ValidIncrementsOn(l)
       /\ links[l].rewardAmountCents = CentsIncrementsOn(l)

(* the counters of every click and link under any number of resolutions,
   rejected storage statements included *)
C1_State ==
  /\ \A c \in ClickIds :
       LET valid == ValidIncrementsFor(c)
           cents == CentsIncrementsFor(c)
       IN /\ valid <= 1
          /\ cents <= REWARD_CENTS
          /\ \A t \in TasksOf(c) :
               /\ pr[t].linkId = clicks[c].linkId
               /\ (pr[t].affected = 0 => pr[t].incValid = 0 /\ pr[t].incReward = 0)
          /\ ( /\ ValidTasksOf(c) # {}
               /\ \A t \in ValidTasksOf(c) : pr[t].pc = "done" /\ ~pr[t].caught )
               => /\ valid = 1
                  /\ cents = REWARD_CENTS
  /\ \A l \in LinkIds :
       /\ links[l].validClicks = ValidIncrementsOn(l)
       /\ links[l].rewardAmountCents = CentsIncrementsOn(l)

(* C1 amended: however many reward resolutions run for a click, in any
   interleaving, the link counters are incremented for it at most once
   (validClicks by at most 1, rewardAmountCents by at most 5), on the click's
   own link, also when storage statements fail; once every resolution whose
   oracle answered valid has finished (and there is one) and none of them
   has swallowed a storage failure, validClicks has been incremented exactly
   once and rewardAmountCents by exactly 5 for that click; a resolution whose
   conditional update matched no row has made no increment. *)
C1_NoDoubleReward == []C1_State

(* two resolutions of one click, both answered valid, both finished *)
C1_Witness ==
  \E c \in ClickIds :
    /\ Cardinality(ValidTasksOf(c)) >= 2
    /\ \A t \in ValidTasksOf(c) : pr[t].pc = "done"
    /\ \E t \in ValidTasksOf(c) : pr[t].affected = 0
    /\ FailedTasksFor(c) = {}
    /\ links[clicks[c].linkId].validClicks = 1

(* ---------------- C2 ---------------- *)
(* what one step may do to the rewarded flags *)
C2_Step ==
  /\ \A c \in ClickIds : clicks[c].rewarded => clicks'[c].rewarded
  /\ \A c \in (1..Len(clicks')) \ ClickIds : clicks'[c].rewarded = FALSE
  /\ \A c \in ClickIds :
       Cardinality({t \in 1..Len(pr') : pr'[t].clickId = c /\ pr'[t].affected = 1}) <= 1
  /\ \A c \in ClickIds :
       (~clicks[c].rewarded /\ clicks'[c].rewarded)
         => \E t \in TasksOf(c) : pr[t].affected = 0 /\ pr'[t].affected = 1

(* C2: a click is inserted with rewarded = false; no step turns a click's
   rewarded from true back to false; and at most one conditional update ever
   matches a given click, so the flag goes from false to true at most once. *)
C2_RewardedAtMostOnce == [][C2_Step]_vars

(* a rewarded click that a second resolution tried to reward again *)
C2_Witness ==
  \E c \in ClickIds :
    /\ clicks[c].rewarded
    /\ \E t \in ValidTasksOf(c) : pr[t].pc = "done" /\ pr[t].affected = 0

(* ---------------- C3 ---------------- *)
NormalizedUrls == {Trim(raw) : raw \in InputUrls}
LinksFor(u) == {l \in LinkIds : links[l].targetUrl = u}
CallsFor(u) == {i \in 1..Len(cl) : cl[i].normalizedUrl = u}
ReturnedFor(u) == {i \in CallsFor(u) : cl[i].pc = "done"}
Finished(i) == cl[i].pc \in {"done", "exhausted"}

(* C3 as stated: once the createLink calls made for a URL have all finished,
   exactly one link is stored for that URL and every one of the calls has
   returned a link, all with the same shortCode. *)
C3_Original ==
  \A u \in NormalizedUrls :
    (CallsFor(u) # {} /\ \A i \in CallsFor(u) : Finished(i))
      => /\ Cardinality(LinksFor(u)) = 1
         /\ \A i \in CallsFor(u) : cl[i].pc = "done"
         /\ \A i, j \in CallsFor(u) : cl[i].shortCode = cl[j].shortCode

(* the stored links and the finished calls, per URL *)
C3_State ==
  /\ \A u \in NormalizedUrls :
       /\ Cardinality(LinksFor(u)) <= 1
       /\ ReturnedFor(u) # {} => Cardinality(LinksFor(u)) = 1
       /\ \A i \in ReturnedFor(u) :
            /\ cl[i].result \in LinksFor(u)
            /\ cl[i].shortCode = links[cl[i].result].shortCode
       /\ \A i, j \in ReturnedFor(u) : cl[i].shortCode = cl[j].shortCode
  /\ \A i \in 1..Len(cl) :
       cl[i].pc = "exhausted" => cl[i].attempt = MAX_GENERATION_ATTEMPTS

(* how a call leaves its lookup after a conflict *)
C3_Step ==
  \A i \in 1..Len(cl) :
    (cl[i].pc = "lookup" /\ cl'[i].pc # "lookup")
      => IF LinksFor(cl[i].normalizedUrl) # {}
         THEN cl'[i].pc = "done" /\ cl'[i].result \in LinksFor(cl[i].normalizedUrl)
         ELSE cl'[i].pc \in {"save", "exhausted"}

(* C3 amended: under any interleaving at most one link is stored per URL,
   exactly one as soon as a call for the URL has returned; every call that
   returns gives that link, so all returned shortCodes agree; a conflict met
   while a link with the URL exists is resolved by returning that link; a call
   retries or ends with the exhausted-retries error only when the lookup found
   no link with its URL, and it ends so only after 3 attempts. *)
C3_IdempotentRegistration == []C3_State /\ [][C3_Step]_vars

(* two calls for one URL, given with different surrounding whitespace: one
   inserted the link, the other met the conflict and returned the same link *)
C3_Witness ==
  \E i, j \in 1..Len(cl) :
    /\ i # j
    /\ cl[i].normalizedUrl = cl[j].normalizedUrl
    /\ cl[i].pc = "done" /\ cl[j].pc = "done"
    /\ cl[i].inserted /\ ~cl[j].inserted
    /\ cl[i].shortCode = cl[j].shortCode
    /\ Cardinality(LinksFor(cl[i].normalizedUrl)) = 1

(* ---------------- C4 ---------------- *)
(* C4 as stated: for a rewarded click with no reward resolution still
   running, the owning link has been incremented for it exactly once
   (validClicks by 1, rewardAmountCents by 5); and a link none of whose clicks
   has a resolution running has validClicks equal to the number of its
   rewarded clicks and rewardAmountCents equal to 5 times that number. *)
C4_Original ==
  /\ \A c \in ClickIds :
       (clicks[c].rewarded /\ Quiescent(c))
         => /\ ValidIncrementsFor(c) = 1
            /\ CentsIncrementsFor(c) = REWARD_CENTS
            /\ \A t \in TasksOf(c) : pr[t].incValid > 0 => pr[t].linkId = clicks[c].linkId
  /\ \A l \in LinkIds :
       (\A c \in ClicksOf(l) : Quiescent(c))
         => /\ links[l].validClicks = Cardinality(RewardedClicksOf(l))
            /\ links[l].rewardAmountCents = REWARD_CENTS * Cardinality(RewardedClicksOf(l))

(* the resolution of click c whose guarded update matched has not swallowed a
   storage failure *)
RewardDelivered(c) == \A t \in TasksOf(c) : pr[t].affected = 1 => ~pr[t].caught

(* rewarded clicks against the increments made for them *)
C4_State ==
  /\ \A c \in ClickIds :
       LET valid == ValidIncrementsFor(c)
           cents == CentsIncrementsFor(c)
       IN /\ valid <= 1
          /\ cents <= REWARD_CENTS
          /\ \A t \in TasksOf(c) : pr[t].incValid > 0 => pr[t].linkId = clicks[c].linkId
          /\ (clicks[c].rewarded /\ Quiescent(c) /\ RewardDelivered(c))
               => /\ valid = 1
                  /\ cents = REWARD_CENTS
  /\ \A l \in LinkIds :
       (\A c \in ClicksOf(l) : Quiescent(c) /\ RewardDelivered(c))
         => LET rewarded == Cardinality(RewardedClicksOf(l))
            IN /\ links[l].validClicks = rewarded
               /\ links[l].rewardAmountCents = REWARD_CENTS * rewarded

(* C4 amended: for a rewarded click the owning link has never been
   incremented more than once (validClicks by 1, rewardAmountCents by 5), and
   only by resolutions of that click on its own link; once no reward
   resolution of the click is still running, and provided the resolution that
   rewarded it has not swallowed a storage failure, the link has been
   incremented for it exactly once; and a link none of whose clicks has a
   resolution running or a reward cut short by a storage failure has
   validClicks equal to the number of its rewarded clicks and
   rewardAmountCents equal to 5 times that number. *)
C4_RewardedCounted == []C4_State

(* a rewarded click, all its resolutions finished, its link credited *)
C4_Witness ==
  \E c \in ClickIds :
    /\ clicks[c].rewarded
    /\ TasksOf(c) # {}
    /\ Quiescent(c)
    /\ RewardDelivered(c)
    /\ links[clicks[c].linkId].validClicks = 1
    /\ links[clicks[c].linkId].rewardAmountCents = REWARD_CENTS

(* ---------------- C5 ---------------- *)
(* C5: in every reachable state every link has
   rewardAmountCents = validClicks * 5. *)
C5_RewardIsFiveTimesValid ==
  \A l \in LinkIds : links[l].rewardAmountCents = links[l].validClicks * REWARD_CENTS

(* ---------------- C6 ---------------- *)
(* C6: in every reachable state every link has validClicks <= totalClicks. *)
C6_ValidAtMostTotal ==
  \A l \in LinkIds : links[l].validClicks <= links[l].totalClicks

(* a link whose every click has been counted valid *)
C6_Witness ==
  \E l \in LinkIds : links[l].validClicks >= 1 /\ links[l].validClicks = links[l].totalClicks

(* ---------------- C7 ---------------- *)
(* one step, counter by counter *)
C7_Step ==
  /\ Len(links') >= Len(links)
  /\ \A l \in LinkIds :
       /\ links'[l].totalClicks >= links[l].totalClicks
       /\ links'[l].validClicks >= links[l].validClicks
       /\ links'[l].rewardAmountCents >= links[l].rewardAmountCents

(* C7: no step decreases a link's totalClicks, validClicks or
   rewardAmountCents, and no step removes a link. *)
C7_CountersMonotonic == [][C7_Step]_vars

(* all three counters of a link have been incremented *)
C7_Witness ==
  \E l \in LinkIds :
    links[l].totalClicks > 0 /\ links[l].validClicks > 0 /\ links[l].rewardAmountCents > 0

(* ---------------- C8 ---------------- *)
RecordClickStep(i) ==
  \/ RecordClickSave(i)
  \/ RecordClickIncrement(i)
  \/ RecordClickScheduleReturn(i)

(* progress and result of every recordClick call *)
C8_State ==
  \A i \in 1..Len(rc) :
    /\ rc[i].pc \in {"done", "notFound"} \/ ENABLED RecordClickStep(i)
    /\ rc[i].pc = "done"
         => /\ rc[i].result = links[rc[i].linkId].targetUrl
            /\ rc[i].clickId \in ClickIds
            /\ clicks[rc[i].clickId].linkId = rc[i].linkId
            /\ links[rc[i].linkId].totalClicks >= 1
            /\ rc[i].redirect = NoRedirect => ENABLED Redirect(i)

(* the step in which a call returns *)
C8_Step ==
  \A i \in 1..Len(rc) :
    (rc[i].pc # "done" /\ rc'[i].pc = "done")
      => \A t \in 1..Len(pr') :
           pr'[t].clickId = rc[i].clickId
             => pr'[t].pc = "oracle" /\ pr'[t].oracle = "pending"

(* C8: a recordClick call that has found its link can always take its next
   step, whatever the oracle and the reward resolutions have or have not
   done, and it has the target URL after the lookup, the click insert and the
   totalClicks increment, and the controller it returned to can send the
   redirect; at the step in which it returns, no oracle call made for its
   click has answered and no step of its reward resolution has run. *)
C8_RedirectNeverWaits == []C8_State /\ [][C8_Step]_vars

(* recordClick has returned the URL and the redirect has been sent while the
   oracle has not answered *)
C8_Witness ==
  \E i \in 1..Len(rc) :
    /\ rc[i].pc = "done"
    /\ rc[i].result # <<>>
    /\ rc[i].redirect = RedirectTo(rc[i].result)
    /\ \E t \in TasksOf(rc[i].clickId) : pr[t].oracle = "pending"
    /\ clicks[rc[i].clickId].isValid = "null"

(* ---------------- C9 ---------------- *)
FailedTasksOf(c) == {t \in TasksOf(c) : pr[t].oracle = "failed"}

(* what a resolution with a failed oracle call has done *)
C9_State ==
  /\ \A t \in 1..Len(pr) :
       pr[t].oracle = "failed"
         => pr[t].pc = "done" /\ pr[t].affected = 0 /\ pr[t].incValid = 0 /\ pr[t].incReward = 0
  /\ \A c \in ClickIds :
       (TasksOf(c) # {} /\ FailedTasksOf(c) = TasksOf(c))
         => clicks[c] = NewClick(clicks[c].linkId, clicks[c].clickedAt)

(* the step in which the oracle call fails *)
C9_Step ==
  \A t \in 1..Len(pr) :
    (pr[t].oracle = "pending" /\ pr'[t].oracle = "failed")
      => pr'[t].pc = "done" /\ clicks' = clicks /\ links' = links

(* C9: the step in which the oracle call of a reward resolution fails ends
   the resolution normally (nothing is raised) and changes no click and no
   link; the failed resolution has updated and incremented nothing, so a click
   whose resolutions all failed at the oracle is still unresolved
   (isValid null, rewarded false, rewardAmountCents 0). *)
C9_OracleFailureContained == []C9_State /\ [][C9_Step]_vars

(* a finished resolution whose oracle call failed, its click unresolved *)
C9_Witness ==
  \E t \in 1..Len(pr) :
    /\ pr[t].oracle = "failed"
    /\ pr[t].pc = "done"
    /\ clicks[pr[t].clickId].isValid = "null"
    /\ clicks[pr[t].clickId].rewarded = FALSE
    /\ links[pr[t].linkId].validClicks = 0
    /\ links[pr[t].linkId].totalClicks = 1

(* ---------------- C10 ---------------- *)
(* what the claim says of a step in which the update of the invalid branch
   takes effect *)
C10_OriginalStep ==
  \A t \in 1..Len(pr) :
    (pr[t].pc = "markInvalid" /\ pr'[t].pc = "done" /\ ~pr'[t].caught)
      => /\ clicks'[pr[t].clickId].isValid = "false"
         /\ clicks'[pr[t].clickId].rewarded = FALSE
         /\ links' = links

(* C10: when the oracle reports a click invalid, the invalid branch sets the
   click's isValid to false, leaves the click with rewarded = false and
   changes no link. *)
C10_Original == [][C10_OriginalStep]_vars

(* ---------------- C11 ---------------- *)
(* the calls that have stored a click, that have counted it on link l, that
   have returned, and the resolutions recordClick has scheduled *)
ClickSavedBy == {i \in 1..Len(rc) : rc[i].clickId # 0}
CountedBy(l) == {i \in 1..Len(rc) : rc[i].linkId = l /\ rc[i].pc \in {"schedule", "done"}}
ReturnedCalls == {i \in 1..Len(rc) : rc[i].pc = "done"}
ScheduledTasks == {t \in 1..Len(pr) : pr[t].origin = "recordClick"}

(* a call that ended with NotFound has nothing to its name, and every click,
   every totalClicks unit and every scheduled resolution is accounted for by
   a call that found its link *)
C11_State ==
  /\ \A i \in 1..Len(rc) :
       (rc[i].linkId = 0 \/ rc[i].pc = "notFound")
         => /\ rc[i].pc = "notFound"
            /\ rc[i].linkId = 0
            /\ rc[i].clickId = 0
            /\ rc[i].result = <<>>
            /\ rc[i].redirect = NoRedirect
            /\ ~ENABLED RecordClickStep(i)
            /\ ~ENABLED Redirect(i)
  /\ Len(clicks) = Cardinality(ClickSavedBy)
  /\ \A l \in LinkIds : links[l].totalClicks = Cardinality(CountedBy(l))
  /\ Cardinality(ScheduledTasks) = Cardinality(ReturnedCalls)

(* the step in which a call arrives for a code no link has, and every later
   step *)
C11_Step ==
  /\ Len(rc') = Len(rc) + 1
       => LET i == Len(rc')
          IN FindByCode(rc'[i].shortCode) = 0
               => /\ rc'[i].pc = "notFound"
                  /\ rc'[i].redirect = NoRedirect
                  /\ UNCHANGED <<links, clicks, pr>>
  /\ \A i \in 1..Len(rc) : rc[i].pc = "notFound" => rc'[i] = rc[i]

(* C11: a recordClick call for a short code that no link has ends with
   NotFound in the step in which it is made, and that step leaves the links,
   the clicks and the reward resolutions as they were; the call never takes
   another step, holds no click, no result and no redirect, and every stored
   click, every unit of a link's totalClicks and every scheduled resolution
   belongs to a call that found its link. *)
C11_NotFoundHasNoEffect == []C11_State /\ [][C11_Step]_vars

(* a call ended with NotFound next to a call that recorded a click *)
C11_Witness ==
  \E i, j \in 1..Len(rc) :
    /\ rc[i].pc = "notFound"
    /\ rc[j].pc = "done"
    /\ rc[j].redirect = RedirectTo(links[rc[j].linkId].targetUrl)
    /\ i > j

(* ---------------- C12 ---------------- *)
(* what a recordClick call that found its link holds *)
C12_State ==
  \A i \in 1..Len(rc) :
    rc[i].linkId # 0
      => /\ rc[i].linkId \in LinkIds
         /\ links[rc[i].linkId].shortCode = rc[i].shortCode
         /\ rc[i].clickId # 0
              => /\ rc[i].clickId \in ClickIds
                 /\ clicks[rc[i].clickId].linkId = rc[i].linkId
                 /\ \A j \in 1..Len(rc) : j # i => rc[j].clickId # rc[i].clickId
         /\ rc[i].pc = "done"
              => /\ rc[i].clickId # 0
                 /\ rc[i].result = links[rc[i].linkId].targetUrl
                 /\ rc[i].redirect \in {NoRedirect, [status |-> 302, location |-> rc[i].result]}
         /\ rc[i].pc # "done" => rc[i].redirect = NoRedirect

(* what each step of a recordClick call, and of the controller after it, does
   to the tables *)
C12_Step ==
  \A i \in 1..Len(rc) :
    rc'[i] # rc[i]
      => CASE rc[i].pc = "saveClick" ->
                /\ Len(clicks') = Len(clicks) + 1
                /\ \A c \in ClickIds : clicks'[c] = clicks[c]
                /\ LET c == clicks'[Len(clicks')]
                   IN /\ c.linkId = rc[i].linkId
                      /\ c.isValid = "null"
                      /\ c.rewarded = FALSE
                      /\ c.rewardAmountCents = 0
                /\ rc'[i].clickId = Len(clicks')
                /\ links' = links
           [] rc[i].pc = "increment" ->
                /\ clicks' = clicks
                /\ Len(links') = Len(links)
                /\ \A l \in LinkIds :
                     links'[l] = IF l = rc[i].linkId
                                 THEN [links[l] EXCEPT !.totalClicks = links[l].totalClicks + 1]
                                 ELSE links[l]
           [] rc[i].pc = "schedule" ->
                /\ clicks' = clicks
                /\ links' = links
                /\ rc'[i].pc = "done"
                /\ rc'[i].result = links[rc[i].linkId].targetUrl
           [] rc[i].pc = "done" ->
                /\ clicks' = clicks
                /\ links' = links
                /\ rc[i].redirect = NoRedirect
                /\ rc'[i] = [rc[i] EXCEPT !.redirect = [status |-> 302, location |-> rc[i].result]]
           [] OTHER -> FALSE

(* C12: a recordClick call that found the link with its short code inserts
   one click of that link with isValid unresolved, rewarded false and
   rewardAmountCents 0 and changes no other click and no link in that step;
   it then adds exactly 1 to that link's totalClicks and changes nothing else
   of any link or click; it returns that link's targetUrl without a further
   write, and the controller then redirects to the returned URL with 302, once
   and without a write; no two calls hold the same click. *)
C12_RecordClickEffect == []C12_State /\ [][C12_Step]_vars

(* a returned call whose link counts one click, next to an untouched link *)
C12_Witness ==
  \E i \in 1..Len(rc) :
    /\ rc[i].pc = "done"
    /\ links[rc[i].linkId].totalClicks = 1
    /\ clicks[rc[i].clickId].isValid = "null"
    /\ \E l \in LinkIds : l # rc[i].linkId /\ links[l].totalClicks = 0

(* ---------------- C13 ---------------- *)
(* a call waiting at its lookup while a link has its URL can take the lookup *)
C13_State ==
  \A i \in 1..Len(cl) :
    (cl[i].pc = "lookup" /\ LinksFor(cl[i].normalizedUrl) # {})
      => ENABLED CreateLinkLookup(i)

(* stored links keep their shortCode and targetUrl; a call made while a link
   has its URL meets the conflict at its first insert and leaves the lookup
   with that link's shortCode; a returned call keeps what it returned *)
C13_Step ==
  /\ Len(links') >= Len(links)
  /\ \A l \in LinkIds :
       /\ links'[l].shortCode = links[l].shortCode
       /\ links'[l].targetUrl = links[l].targetUrl
  /\ Len(cl') = Len(cl) + 1
       => LET i == Len(cl')
          IN LinksFor(cl'[i].normalizedUrl) # {}
               => /\ cl'[i].pc = "lookup"
                  /\ cl'[i].raised = "23505:targetUrl"
                  /\ links' = links
  /\ \A i \in 1..Len(cl) :
       /\ (cl[i].pc = "lookup" /\ cl'[i] # cl[i] /\ LinksFor(cl[i].normalizedUrl) # {})
            => /\ cl'[i].pc = "done"
               /\ \A l \in LinksFor(cl[i].normalizedUrl) :
                    cl'[i].result = l /\ cl'[i].shortCode = links[l].shortCode
       /\ cl[i].pc = "done" => cl'[i] = cl[i]

(* C13: no step removes a link or changes the shortCode or the targetUrl of a
   stored link; a createLink call made while a link with its (trimmed) URL is
   stored stores nothing, can always go on, and returns that link with its
   shortCode, whatever registrations, redirects and reward resolutions have
   run before or run in between. *)
C13_LinkIsStable == []C13_State /\ [][C13_Step]_vars

(* a link that has been clicked, and a later call for its URL that returned
   its shortCode *)
C13_Witness ==
  \E i, j \in 1..Len(cl) :
    /\ cl[i].inserted
    /\ links[cl[i].result].totalClicks > 0
    /\ cl[j].pc = "done"
    /\ cl[j].attempt = 0
    /\ cl[j].raised = "23505:targetUrl"
    /\ cl[j].shortCode = links[cl[i].result].shortCode

(* ---------------- C14 ---------------- *)
(* C14: in every reachable state, whatever the interleaving of the createLink
   calls, two different stored links differ in their targetUrl and in their
   shortCode. *)
C14_UniqueLinks ==
  \A l1, l2 \in LinkIds :
    l1 # l2 => /\ links[l1].targetUrl # links[l2].targetUrl
               /\ links[l1].shortCode # links[l2].shortCode

(* two links are stored, one insert was rejected for its shortCode and one
   for its targetUrl *)
C14_Witness ==
  /\ Len(links) = 2
  /\ \E i, j \in 1..Len(cl) :
       /\ cl[i].inserted /\ cl[i].attempt > 0
       /\ cl[j].raised = "23505:targetUrl"

(* ---------------- C15 ---------------- *)
(* the inserts a createLink call has attempted so far *)
InsertsMade(call) ==
  IF call.pc \in {"save", "exhausted"} THEN call.attempt ELSE call.attempt + 1

(* C15 as stated: a call whose insert was rejected for the shortCode alone
   (no link had its URL at the insert) goes on to another insert, or, after
   its third insert, ends with the exhausted-retries error. *)
C15_OriginalStep ==
  \A i \in 1..Len(cl) :
    (cl[i].pc = "lookup" /\ cl'[i] # cl[i] /\ cl[i].raised = "23505:shortCode")
      => IF InsertsMade(cl[i]) < MAX_GENERATION_ATTEMPTS
         THEN cl'[i].pc = "save"
         ELSE cl'[i].pc = "exhausted"

C15_Original == [][C15_OriginalStep]_vars

(* the number of inserts of a call, and the calls that gave up *)
C15_State ==
  \A i \in 1..Len(cl) :
    /\ InsertsMade(cl[i]) <= MAX_GENERATION_ATTEMPTS
    /\ cl[i].pc = "save" => InsertsMade(cl[i]) < MAX_GENERATION_ATTEMPTS
    /\ cl[i].pc = "exhausted"
         => /\ InsertsMade(cl[i]) = MAX_GENERATION_ATTEMPTS
            /\ IsUniqueViolationError(cl[i].raised)
            /\ ~cl[i].inserted
            /\ cl[i].result = 0

(* a lookup that finds no link with the URL, a pass of the loop, and a call
   that has given up *)
C15_Step ==
  \A i \in 1..Len(cl) :
    /\ (cl[i].pc = "lookup" /\ cl'[i] # cl[i] /\ LinksFor(cl[i].normalizedUrl) = {})
         => /\ links' = links
            /\ InsertsMade(cl'[i]) = InsertsMade(cl[i])
            /\ IF InsertsMade(cl[i]) < MAX_GENERATION_ATTEMPTS
               THEN cl'[i].pc = "save"
               ELSE cl'[i].pc = "exhausted"
    /\ (cl[i].pc = "save" /\ cl'[i] # cl[i])
         => /\ InsertsMade(cl'[i]) = InsertsMade(cl[i]) + 1
            /\ cl'[i].pc \in {"done", "lookup"}
            /\ cl'[i].pc = "done"
                 => /\ Len(links') = Len(links) + 1
                    /\ links'[Len(links')].targetUrl = cl[i].normalizedUrl
                    /\ links'[Len(links')].shortCode \in Codes
    /\ cl[i].pc = "exhausted" => cl'[i] = cl[i]

(* C15 amended: a call whose insert was rejected with 23505 and whose lookup
   then finds no link with its URL makes another insert with a newly drawn
   code if it has made fewer than 3, and otherwise ends with the
   exhausted-retries error, having stored nothing, at a moment when no link
   has its URL; no call makes more than 3 inserts. *)
C15_RetryOnCodeConflict == []C15_State /\ [][C15_Step]_vars

(* a call gave up after 3 rejected inserts and no link has its URL *)
C15_Witness ==
  \E i \in 1..Len(cl) :
    /\ cl[i].pc = "exhausted"
    /\ cl[i].raised = "23505:shortCode"
    /\ LinksFor(cl[i].normalizedUrl) = {}
    /\ Len(links) > 0

(* ---------------- C16 ---------------- *)
(* a call whose insert raised an error other than 23505 *)
C16_State ==
  \A i \in 1..Len(cl) :
    cl[i].raised \in StorageErrors
      => /\ cl[i].pc = "threw"
         /\ cl[i].error = cl[i].raised
         /\ ~cl[i].inserted
         /\ cl[i].result = 0
         /\ ~ENABLED CreateLinkRetry(i)
         /\ ~ENABLED CreateLinkLookup(i)
         /\ ~ENABLED CreateLinkRetryFails(i)
         /\ ~ENABLED CreateLinkLookupFails(i)

(* the step in which the insert raises the error, and every later step *)
C16_Step ==
  /\ Len(cl') = Len(cl) + 1
       => (cl'[Len(cl')].raised \in StorageErrors => links' = links)
  /\ \A i \in 1..Len(cl) :
       /\ (cl'[i] # cl[i] /\ cl'[i].raised \in StorageErrors)
            => /\ cl[i].pc = "save"
               /\ cl'[i].attempt = cl[i].attempt
               /\ links' = links
       /\ cl[i].pc = "threw" => cl'[i] = cl[i]

(* C16: when an insert of createLink raises a storage error other than the
   unique violation, the call ends in that step by throwing that very error:
   nothing is stored, the attempt counter does not advance, and the call
   takes no further step, neither another insert nor the lookup of an
   existing link. *)
C16_StorageErrorPropagates == []C16_State /\ [][C16_Step]_vars

(* one call threw the error of its first insert, another the different error
   of a later insert, next to a stored link *)
C16_Witness ==
  \E i, j \in 1..Len(cl) :
    /\ cl[i].pc = "threw" /\ cl[i].attempt = 0 /\ cl[i].error = "08006"
    /\ cl[i].raised = "08006"
    /\ cl[j].pc = "threw" /\ cl[j].attempt > 0 /\ cl[j].error = "57014"
    /\ cl[j].raised = "57014"
    /\ Len(links) > 0

(* ---------------- C17 ---------------- *)
AllSpaces(s) == \A k \in 1..Len(s) : s[k] = " "

(* t is raw without its surrounding whitespace: t neither starts nor ends
   with whitespace and raw is t between two runs of whitespace *)
IsTrimOf(t, raw) ==
  /\ Len(t) > 0 => t[1] # " " /\ t[Len(t)] # " "
  /\ \E a \in 0..Len(raw) :
       /\ a + Len(t) <= Len(raw)
       /\ AllSpaces(SubSeq(raw, 1, a))
       /\ SubSeq(raw, a + 1, a + Len(t)) = t
       /\ AllSpaces(SubSeq(raw, a + Len(t) + 1, Len(raw)))

(* what every createLink call and every stored link hold *)
C17_State ==
  /\ \A i \in 1..Len(cl) :
       /\ IsTrimOf(cl[i].normalizedUrl, cl[i].targetUrl)
       /\ cl[i].pc = "done"
            => /\ cl[i].result \in LinkIds
               /\ IsTrimOf(links[cl[i].result].targetUrl, cl[i].targetUrl)
  /\ \A l \in LinkIds : IsTrimOf(links[l].targetUrl, links[l].targetUrl)
  /\ \A i, j \in 1..Len(cl) :
       (/\ cl[i].pc = "done"
        /\ cl[j].pc = "done"
        /\ IsTrimOf(links[cl[i].result].targetUrl, cl[j].targetUrl))
         => cl[j].result = cl[i].result

(* C17: the URL a createLink call compares and stores is its argument without
   the surrounding whitespace; the link a call inserts or returns has that
   URL as its targetUrl; and two calls that have returned and whose arguments
   are the same URL up to surrounding whitespace have returned the same
   link. *)
C17_TrimmedBeforeUse == []C17_State

(* the padded URL was registered first and stored trimmed; the bare URL then
   resolved to the same link *)
C17_Witness ==
  \E i, j \in 1..Len(cl) :
    /\ i < j
    /\ cl[i].targetUrl = <<" ", "a", " ">>
    /\ cl[i].inserted
    /\ links[cl[i].result].targetUrl = <<"a">>
    /\ cl[j].targetUrl = <<"a">>
    /\ cl[j].pc = "done"
    /\ cl[j].result = cl[i].result

(* ---------------- C18 ---------------- *)
(* the redirects of link l that have been served *)
RedirectsOf(l) == {i \in 1..Len(rc) : rc[i].linkId = l /\ rc[i].pc = "done"}

(* every redirect of link l has been served and every reward resolution of
   its clicks has completed on a valid verdict without a storage failure *)
AllValidSettled(l) ==
  /\ \A i \in 1..Len(rc) : rc[i].linkId = l => rc[i].pc = "done"
  /\ \A t \in TasksOn(l) : pr[t].pc = "done" /\ pr[t].oracle = "valid" /\ ~pr[t].caught

(* the counters of a settled link *)
C18_State ==
  \A l \in LinkIds :
    AllValidSettled(l)
      => LET k == Cardinality(RedirectsOf(l))
         IN /\ links[l].totalClicks = k
            /\ links[l].validClicks = k
            /\ links[l].rewardAmountCents = 5 * k
            /\ Cardinality(ClicksOf(l)) = k

(* what a getStats call reads of a settled link, and what it reports of the
   links it has read *)
C18_Step ==
  \A i \in 1..Len(gs) :
    /\ (gs[i].pc = "find" /\ gs'[i].pc # "find")
         => \A n \in 1..Len(gs'[i].links) :
              LET e == gs'[i].links[n]
                  k == Cardinality(RedirectsOf(e.id))
              IN AllValidSettled(e.id)
                   => e.totalClicks = k /\ e.rewardAmountCents = 5 * k
    /\ (gs[i].pc = "aggregate" /\ gs'[i].pc # "aggregate")
         => /\ Len(gs'[i].data) = Len(gs[i].links)
            /\ \A n \in 1..Len(gs[i].links) :
                 LET e == gs[i].links[n]
                     row == gs'[i].data[n]
                 IN /\ row.url = e.targetUrl
                    /\ row.total_clicks = e.totalClicks
                    /\ 100 * row.total_earning.units + row.total_earning.hundredths
                         = e.rewardAmountCents
                    /\ row.total_earning.hundredths \in 0..99

(* C18: whenever the k redirects of a link have all been served and the
   reward resolutions of their clicks have all completed on a valid verdict
   with no storage failure, the link has totalClicks = k, validClicks = k and rewardAmountCents = 5k;
   a getStats call that reads the link then reads these values, and what it
   reports for a link it has read is total_clicks = the totalClicks read and
   total_earning = the rewardAmountCents read, divided by 100. *)
C18_SettledTotals == []C18_State /\ [][C18_Step]_vars

(* getStats has reported one click and 0.05 for a link whose single redirect
   is settled *)
C18_Witness ==
  \E l \in LinkIds, i \in 1..Len(gs) :
    /\ AllValidSettled(l)
    /\ Cardinality(RedirectsOf(l)) = 1
    /\ gs[i].pc = "done"
    /\ \E n \in 1..Len(gs[i].data) :
         /\ gs[i].links[n].id = l
         /\ gs[i].data[n].total_clicks = 1
         /\ gs[i].data[n].total_earning = [units |-> 0, hundredths |-> 5]

(* ---------------- C19 ---------------- *)
(* the meta of every getStats call, and the calls answered on an empty store *)
C19_State ==
  \A i \in 1..Len(gs) :
    /\ gs[i].totalLinks \in 0..Len(links)
    /\ gs[i].totalPages * gs[i].limit >= gs[i].totalLinks
    /\ (gs[i].totalPages - 1) * gs[i].limit < gs[i].totalLinks
    /\ (gs[i].pc = "done" /\ Len(links) = 0)
         => /\ gs[i].data = <<>>
            /\ gs[i].links = <<>>
            /\ gs[i].totalLinks = 0
            /\ gs[i].totalPages = 0

(* the count is the number of stored links when the call is made, and the
   meta is not touched afterwards *)
C19_Step ==
  /\ Len(gs') = Len(gs) + 1 => gs'[Len(gs')].totalLinks = Len(links)
  /\ \A i \in 1..Len(gs) :
       /\ gs'[i].totalLinks = gs[i].totalLinks
       /\ gs'[i].totalPages = gs[i].totalPages
       /\ gs'[i].limit = gs[i].limit

(* C19: the totalLinks of a getStats call is the number of links stored when
   the call counts them, its totalPages is the least integer p with
   p * limit >= totalLinks, and both are reported as computed; a call
   answered while the store is empty reports no data, totalLinks 0 and
   totalPages 0. *)
C19_Meta == []C19_State /\ [][C19_Step]_vars

(* one call was answered on the empty store; a later one counted 1 link with
   limit 2 and reports 1 page *)
C19_Witness ==
  \E i, j \in 1..Len(gs) :
    /\ gs[i].pc = "done" /\ gs[i].totalLinks = 0 /\ gs[i].totalPages = 0
    /\ gs[i].data = <<>>
    /\ gs[j].pc = "done" /\ gs[j].totalLinks = 1 /\ gs[j].limit = 2
    /\ gs[j].totalPages = 1

(* ---------------- C20 ---------------- *)
(* position p (from 1) of the stored links ordered newest first *)
NewestAt(p) == Len(links) + 1 - p

(* the number of positions of page `page` that exist *)
PageSize(page, limit) ==
  LET skip == (page - 1) * limit
  IN IF Len(links) <= skip THEN 0
     ELSE IF Len(links) - skip < limit THEN Len(links) - skip ELSE limit

(* the page of every getStats call that has read it *)
C20_State ==
  \A i \in 1..Len(gs) :
    (gs[i].pc \in {"aggregate", "done"} /\ gs[i].totalLinks = Len(links))
      => LET skip == (gs[i].page - 1) * gs[i].limit
             n == PageSize(gs[i].page, gs[i].limit)
         IN /\ Len(gs[i].links) = n
            /\ \A k \in 1..n : gs[i].links[k].id = NewestAt(skip + k)
            /\ (gs[i].pc = "done" /\ n > 0)
                 => /\ gs[i].aggregated
                    /\ Len(gs[i].data) = n
                    /\ \A k \in 1..n :
                         gs[i].data[k].url = links[NewestAt(skip + k)].targetUrl
            /\ n = 0
                 => /\ gs[i].pc = "done"
                    /\ gs[i].data = <<>>
                    /\ ~gs[i].aggregated
                    /\ gs[i].totalPages * gs[i].limit >= Len(links)
                    /\ (gs[i].totalPages - 1) * gs[i].limit < Len(links)

(* C20: for a getStats call that has read its page, as long as no link has
   been stored since the call counted the links: the links it has read are
   those at positions (page-1)*limit + 1 .. (page-1)*limit + limit of all
   links ordered newest first, as far as they exist, in that order; once the
   call has returned, its data has one row per such link, in that order, with
   that link's URL; and when the page lies beyond the last link the data is
   empty, totalLinks and totalPages are those of the store, and no
   aggregation query was issued. *)
C20_Page == []C20_State

(* page 2 of 2 links at limit 1 is the older link *)
C20_Witness ==
  \E i \in 1..Len(gs) :
    /\ gs[i].pc = "done"
    /\ gs[i].page = 2 /\ gs[i].limit = 1
    /\ Len(links) = 2 /\ gs[i].totalLinks = 2
    /\ Len(gs[i].data) = 1
    /\ gs[i].data[1].url = links[1].targetUrl

(* ---------------- C21 ---------------- *)
(* the find of a getStats call reads the stored columns of each link of the
   page; the assembly reports them *)
C21_Step ==
  \A i \in 1..Len(gs) :
    /\ (gs[i].pc = "find" /\ gs'[i].pc # "find")
         => \A n \in 1..Len(gs'[i].links) :
              LET e == gs'[i].links[n]
              IN /\ e.id \in LinkIds
                 /\ e.targetUrl = links[e.id].targetUrl
                 /\ e.totalClicks = links[e.id].totalClicks
                 /\ e.rewardAmountCents = links[e.id].rewardAmountCents
    /\ (gs[i].pc = "aggregate" /\ gs'[i].pc = "done")
         => /\ gs'[i].links = gs[i].links
            /\ Len(gs'[i].data) = Len(gs[i].links)
            /\ \A n \in 1..Len(gs[i].links) :
                 LET e == gs[i].links[n]
                     row == gs'[i].data[n]
                 IN /\ row.url = e.targetUrl
                    /\ row.total_clicks = e.totalClicks
                    /\ row.total_earning.units = e.rewardAmountCents \div 100
                    /\ row.total_earning.hundredths = e.rewardAmountCents % 100
    /\ gs[i].pc = "done" => gs'[i] = gs[i]

(* C21: the entry getStats reports for a link has as url the link's
   targetUrl, as total_clicks the link's stored totalClicks counter and as
   total_earning the link's stored rewardAmountCents divided by 100, each as
   read from the links table by the call's find; the click rows are not
   counted. *)
C21_EntryFromCounters == [][C21_Step]_vars

(* getStats reported 0 clicks for a link that has a click row whose
   totalClicks increment is still to come *)
C21_Witness ==
  \E i \in 1..Len(gs), j \in 1..Len(rc) :
    /\ gs[i].pc = "done"
    /\ gs[i].aggregated
    /\ rc[j].pc = "increment"
    /\ \E n \in 1..Len(gs[i].data) :
         /\ gs[i].links[n].id = rc[j].linkId
         /\ gs[i].data[n].total_clicks = 0
         /\ gs[i].data[n].url = links[rc[j].linkId].targetUrl
         /\ Cardinality(ClicksOf(rc[j].linkId)) = 1

(* ---------------- C22 ---------------- *)
(* the clicks of link l recorded in month k, and those of them that count *)
ClicksIn(l, k) == {c \in ClicksOf(l) : clicks[c].clickedAt = k}
ValidClicksIn(l, k) == {c \in ClicksIn(l, k) : clicks[c].isValid = "true"}

(* the breakdowns a getStats call assembles from the aggregation query *)
C22_Step ==
  \A i \in 1..Len(gs) :
    (gs[i].pc = "aggregate" /\ gs'[i].pc = "done")
      => \A n \in 1..Len(gs[i].links) :
           LET l == gs[i].links[n].id
               b == gs'[i].data[n].monthly_breakdown
           IN /\ {b[k].at : k \in 1..Len(b)}
                   = {m \in 1..Len(Months) : ClicksIn(l, m) # {}}
              /\ \A j, k \in 1..Len(b) : j # k => b[j].at # b[k].at
              /\ \A k \in 1..Len(b) :
                   /\ b[k].month = MonthText(b[k].at)
                   /\ 100 * b[k].earning.units + b[k].earning.hundredths
                        = SumOver([c \in ClickIds |-> clicks[c].rewardAmountCents],
                                  ValidClicksIn(l, b[k].at))
                   /\ b[k].earning.hundredths \in 0..99
              /\ ClicksOf(l) = {} => b = <<>>

(* C22: the monthly_breakdown getStats reports for a link of its page has
   exactly one entry for each calendar month in which the link has a click at
   the time of the aggregation query, none for any other month, and each
   entry's earning is the sum of rewardAmountCents over the link's clicks of
   that month whose isValid is true, divided by 100; a link without clicks
   has an empty breakdown. *)
C22_MonthlyBreakdown == [][C22_Step]_vars

(* a link with a valid click in one month and a click that is not valid in
   another, reported with earnings 0.05 and 0; the other link of the page has
   no click and an empty breakdown *)
C22_Witness ==
  \E i \in 1..Len(gs) :
    /\ gs[i].pc = "done"
    /\ Len(gs[i].data) = 2
    /\ \E n, o \in 1..2 :
         LET b == gs[i].data[n].monthly_breakdown
         IN /\ Len(b) = 2
            /\ \E j, k \in 1..2 :
                 /\ b[j].earning = [units |-> 0, hundredths |-> 5]
                 /\ b[k].earning = [units |-> 0, hundredths |-> 0]
            /\ gs[i].data[o].monthly_breakdown = <<>>

(* ---------------- C23 ---------------- *)
(* the entries of every breakdown run from the most recent month to the
   oldest *)
C23_Step ==
  \A i \in 1..Len(gs) :
    (gs[i].pc = "aggregate" /\ gs'[i].pc = "done")
      => \A n \in 1..Len(gs'[i].data) :
           LET b == gs'[i].data[n].monthly_breakdown
           IN \A j, k \in 1..Len(b) : j < k => b[j].at > b[k].at

(* C23: in every monthly_breakdown getStats returns, an entry that comes
   before another is of a more recent calendar month, whatever the years of
   the months. *)
C23_MonthsDescending == [][C23_Step]_vars

(* ---------------- C24 ---------------- *)
(* the reward resolutions recordClick has started for click c *)
StartedFor(c) == {t \in TasksOf(c) : pr[t].origin = "recordClick"}

(* the resolutions started by the recordClick calls *)
C24_State ==
  /\ \A i \in 1..Len(rc) :
       IF rc[i].pc = "done"
       THEN /\ Cardinality(StartedFor(rc[i].clickId)) = 1
            /\ \A t \in StartedFor(rc[i].clickId) :
                 /\ pr[t].linkId = rc[i].linkId
                 /\ pr[t].linkId = clicks[pr[t].clickId].linkId
       ELSE \A t \in 1..Len(pr) : pr[t].clickId # rc[i].clickId
  /\ \A t \in 1..Len(pr) :
       \E i \in 1..Len(rc) : rc[i].pc = "done" /\ rc[i].clickId = pr[t].clickId

(* C24: a recordClick call that has returned has started exactly one reward
   resolution for the click it inserted, with that click's id and the id of
   the click's link; a call that has not returned (still running, or ended
   with NotFound) has started none; and every resolution started by
   recordClick belongs to the click of a returned call. *)
C24_StartedOncePerClick == []C24_State

(* a returned call with the one resolution it started, next to a call that
   ended with NotFound and started none *)
C24_Witness ==
  \E i, j \in 1..Len(rc) :
    /\ rc[i].pc = "done"
    /\ Cardinality(StartedFor(rc[i].clickId)) = 1
    /\ rc[j].pc = "notFound"
    /\ Len(pr) = 1

(* ---------------- C25 ---------------- *)
(* the resolutions on link l whose conditional update matched and that have
   executed the validClicks increment, and those that have executed both *)
CreditedValid(l) ==
  {t \in TasksOn(l) : /\ pr[t].affected = 1
                      /\ \/ pr[t].pc = "incReward"
                         \/ pr[t].pc = "done" /\ pr[t].failedAt # "incValid"}
CreditedCents(l) ==
  {t \in TasksOn(l) : pr[t].affected = 1 /\ pr[t].pc = "done" /\ ~pr[t].caught}

(* the counters of every link against the increments executed on it *)
C25_State ==
  /\ \A l \in LinkIds :
       /\ links[l].totalClicks = Cardinality(CountedBy(l))
       /\ links[l].validClicks = Cardinality(CreditedValid(l))
       /\ links[l].rewardAmountCents = REWARD_CENTS * Cardinality(CreditedCents(l))
  /\ \A c \in ClickIds :
       Cardinality({t \in TasksOf(c) : pr[t].affected = 1}) <= 1

(* C25: in every reachable state, whatever the interleaving, a link's
   totalClicks is the number of recordClick calls that have executed their
   increment on it, its validClicks is the number of reward resolutions whose
   guarded update matched and that have executed their validClicks increment
   on it, and its rewardAmountCents is 5 times the number of those that have
   executed both increments; at most one resolution per click matches.  So
   once m calls and the resolutions of n clicks have completed, the counters
   are m and the number of matched clicks: no increment is lost. *)
C25_IncrementsNotLost == []C25_State

(* two redirects of one link were counted while the resolution of the first
   credited the link *)
C25_Witness ==
  \E l \in LinkIds, i, j \in 1..Len(rc) :
    /\ i # j
    /\ rc[i].linkId = l /\ rc[j].linkId = l
    /\ rc[i].pc = "done" /\ rc[j].pc = "schedule"
    /\ links[l].totalClicks = 2
    /\ links[l].validClicks = 1
    /\ links[l].rewardAmountCents = 5

(* ---------------- C26 ---------------- *)
(* a resolved click keeps its verdict, and a click's reward fields are written
   at most once *)
C26_Step ==
  \A c \in ClickIds :
    /\ clicks[c].isValid # "null" => clicks'[c].isValid = clicks[c].isValid
    /\ clicks[c].rewarded => clicks'[c].rewarded
    /\ clicks[c].rewardAmountCents # 0
         => clicks'[c].rewardAmountCents = clicks[c].rewardAmountCents

(* C26: once a click's isValid has been set to true or false no step writes a
   different value to it, and rewarded and rewardAmountCents, once set, are
   not written again to another value, also when processClickReward runs more
   than once for the click. *)
C26_ResolvedOnce == [][C26_Step]_vars

(* ---------------- C27 ---------------- *)
(* C27: in every reachable state a click with rewarded = true has
   rewardAmountCents = 5 and a click with rewarded = false has
   rewardAmountCents = 0. *)
C27_AmountFollowsRewarded ==
  \A c \in ClickIds :
    clicks[c].rewardAmountCents = IF clicks[c].rewarded THEN 5 ELSE 0

(* a rewarded click with 5 cents next to a click judged invalid with 0 *)
C27_Witness ==
  \E c, d \in ClickIds :
    /\ clicks[c].rewarded /\ clicks[c].rewardAmountCents = 5
    /\ ~clicks[d].rewarded /\ clicks[d].isValid = "false"
    /\ clicks[d].rewardAmountCents = 0

(* ---------------- C28 ---------------- *)
(* the oracle has answered resolution t with a boolean *)
Answered(t) == t \in 1..Len(pr) /\ pr[t].oracle \in {"valid", "invalid"}

(* the click of resolution t is resolved *)
ResolvedBy(t) == t \in 1..Len(pr) /\ clicks[pr[t].clickId].isValid # "null"

(* every resolution the oracle has answered has its click resolved *)
AnsweredAreResolved == \A t \in 1..Len(pr) : Answered(t) => ResolvedBy(t)

(* C28: under fair scheduling of the reward task, whenever the oracle has
   answered a reward resolution with a boolean, the resolution's click
   eventually has isValid true or false: an answer stays an answer and a
   resolved click stays resolved, so this is to say that again and again
   every answered resolution has its click resolved. *)
C28_EventuallyResolved == []<>AnsweredAreResolved

(* the oracle answered false for one click, which is marked invalid, and
   failed for another, which is still unresolved *)
C28_Witness ==
  \E t, u \in 1..Len(pr) :
    /\ pr[t].oracle = "invalid" /\ pr[t].pc = "done"
    /\ clicks[pr[t].clickId].isValid = "false"
    /\ pr[u].oracle = "failed" /\ pr[u].pc = "done"
    /\ clicks[pr[u].clickId].isValid = "null"

(* ---------------- C29 ---------------- *)
(* any step of reward resolution t *)
RewardTaskStep(t) ==
  \/ OracleReturns(t)
  \/ OracleFails(t)
  \/ RewardConditionalUpdate(t)
  \/ RewardIncrementValid(t)
  \/ RewardIncrementAmount(t)
  \/ RewardMarkInvalid(t)

(* every resolution invoked for click c so far failed at the oracle *)
AllFailed(c) == TasksOf(c) # {} /\ \A t \in TasksOf(c) : pr[t].oracle = "failed"

(* a click whose resolutions all failed: nothing written, nothing credited,
   nothing left to run *)
C29_State ==
  \A c \in ClickIds :
    AllFailed(c)
      => /\ clicks[c].isValid = "null"
         /\ ~clicks[c].rewarded
         /\ clicks[c].rewardAmountCents = 0
         /\ ValidIncrementsFor(c) = 0
         /\ CentsIncrementsFor(c) = 0
         /\ \A t \in TasksOf(c) : ~ENABLED RewardTaskStep(t)

(* it stays so unless a resolution is delivered for it from outside *)
C29_Step ==
  \A c \in ClickIds :
    AllFailed(c)
      => \/ /\ \A t \in 1..Len(pr') : pr'[t].clickId = c => pr'[t].oracle = "failed"
            /\ clicks'[c] = clicks[c]
         \/ /\ Len(pr') = Len(pr) + 1
            /\ pr'[Len(pr')].clickId = c
            /\ pr'[Len(pr')].origin = "redelivery"
            /\ clicks'[c] = clicks[c]

(* C29: a click all of whose reward resolutions failed at the oracle is
   unresolved and unrewarded, its link has not been credited for it, and none
   of these resolutions can take another step; every step leaves it so,
   except that a resolution may be delivered for it again from outside. *)
C29_NoRetryAfterFailure == []C29_State /\ [][C29_Step]_vars

(* the resolution of one click failed; a later click of the same link was
   rewarded and only that one is credited *)
C29_Witness ==
  \E c, d \in ClickIds :
    /\ c < d
    /\ AllFailed(c)
    /\ clicks[d].linkId = clicks[c].linkId
    /\ clicks[d].rewarded
    /\ Quiescent(d)
    /\ links[clicks[c].linkId].validClicks = 1
    /\ links[clicks[c].linkId].totalClicks = 2

(* ---------------- C30 ---------------- *)
(* where a recordClick call stands, and what exists at that point *)
C30_State ==
  /\ \A i \in 1..Len(rc) :
       CASE rc[i].pc = "notFound" -> rc[i].linkId = 0 /\ rc[i].clickId = 0
         [] rc[i].pc = "saveClick" ->
              rc[i].linkId \in LinkIds /\ rc[i].clickId = 0 /\ rc[i].result = <<>>
         [] rc[i].pc = "increment" ->
              /\ rc[i].clickId \in ClickIds
              /\ TasksOf(rc[i].clickId) = {}
              /\ rc[i].result = <<>>
         [] rc[i].pc = "schedule" ->
              /\ rc[i].clickId \in ClickIds
              /\ links[rc[i].linkId].totalClicks >= 1
              /\ TasksOf(rc[i].clickId) = {}
              /\ rc[i].result = <<>>
         [] rc[i].pc = "done" ->
              /\ rc[i].clickId \in ClickIds
              /\ TasksOf(rc[i].clickId) # {}
              /\ rc[i].result # <<>>
  /\ \A t \in 1..Len(pr) :
       /\ pr[t].clickId \in ClickIds
       /\ links[pr[t].linkId].totalClicks
            >= Cardinality({c \in ClicksOf(pr[t].linkId) : TasksOf(c) # {}})

(* the steps of a call, in their order *)
C30_Step ==
  /\ \A i \in 1..Len(rc) :
       rc'[i].pc # rc[i].pc
         => \/ /\ rc[i].pc = "saveClick" /\ rc'[i].pc = "increment"
               /\ Len(clicks') = Len(clicks) + 1
               /\ Len(pr') = Len(pr)
            \/ /\ rc[i].pc = "increment" /\ rc'[i].pc = "schedule"
               /\ links'[rc[i].linkId].totalClicks = links[rc[i].linkId].totalClicks + 1
               /\ Len(pr') = Len(pr)
            \/ /\ rc[i].pc = "schedule" /\ rc'[i].pc = "done"
               /\ Len(pr') = Len(pr) + 1
               /\ pr'[Len(pr')].clickId = rc[i].clickId
               /\ pr'[Len(pr')].pc = "oracle"
               /\ rc'[i].result = rc[i].targetUrl
  /\ Len(rc') = Len(rc) + 1 => rc'[Len(rc')].pc \in {"saveClick", "notFound"}

(* C30: a recordClick call goes through link lookup, click insert,
   totalClicks increment, start of the reward resolution and return, in this
   order and one step at a time; so before the call has inserted its click
   and incremented totalClicks no reward resolution exists for the click,
   every resolution's click row exists, and the link has been counted for
   every click that has a resolution. *)
C30_StepsInOrder == []C30_State /\ [][C30_Step]_vars

(* one call has just started its resolution, a second call on the same link
   has inserted its click and not yet incremented *)
C30_Witness ==
  \E i, j \in 1..Len(rc) :
    /\ rc[i].pc = "done" /\ rc[j].pc = "increment"
    /\ rc[i].linkId = rc[j].linkId
    /\ links[rc[i].linkId].totalClicks = 1
    /\ Len(clicks) = 2
    /\ Len(pr) = 1 /\ pr[1].pc = "oracle"

(* ---------------- C31 ---------------- *)
(* the recordClick calls that a storage error ended *)
ThrewCalls == {i \in 1..Len(rc) : rc[i].pc = "threw"}

(* a call ended by a storage error carries that error, has returned no target
   URL and sent no redirect, and no reward resolution exists for its click *)
C31_State ==
  \A i \in ThrewCalls :
    /\ rc[i].error \in StorageErrors
    /\ rc[i].result = <<>>
    /\ rc[i].redirect = NoRedirect
    /\ rc[i].clickId # 0 => TasksOf(rc[i].clickId) = {}
    /\ rc[i].clickId = 0 => \A t \in 1..Len(pr) : pr[t].clickId \in ClickIds

(* a call whose click insert or totalClicks increment did not take effect
   ends with the storage's error, and a call so ended stays as it is *)
C31_Step ==
  \A i \in 1..Len(rc) :
    /\ (rc[i].pc = "saveClick" /\ rc'[i] # rc[i] /\ clicks' = clicks)
         => rc'[i].pc = "threw" /\ rc'[i].error \in StorageErrors
    /\ (rc[i].pc = "increment" /\ rc'[i] # rc[i] /\ links' = links)
         => rc'[i].pc = "threw" /\ rc'[i].error \in StorageErrors
    /\ rc[i].pc = "threw" => rc'[i] = rc[i]

(* C31: when the click insert or the totalClicks increment of recordClick
   fails with a storage error, that error is the outcome of the call, no
   target URL is returned, and no reward resolution is started for the
   click. *)
C31_StorageErrorPropagates == []C31_State /\ [][C31_Step]_vars

(* one call failed at the click insert, another at the increment after its
   click row was stored, with different storage errors, and a third went
   through and started its resolution: the link counts the third call's
   click only, and only that click has a resolution *)
C31_Witness ==
  \E i, j, k \in 1..Len(rc) :
    /\ rc[i].pc = "threw" /\ rc[i].linkId # 0 /\ rc[i].clickId = 0
    /\ rc[i].error = "08006"
    /\ rc[j].pc = "threw" /\ rc[j].clickId # 0 /\ rc[j].error = "57014"
    /\ rc[k].pc = "done" /\ TasksOf(rc[k].clickId) # {}
    /\ rc[k].linkId = rc[j].linkId
    /\ links[rc[j].linkId].totalClicks = 1
    /\ Cardinality(ClicksOf(rc[j].linkId)) = 2

(* ---------------- C32 ---------------- *)
(* a step of a createLink call: the call is entered or its record changes *)
C32_CreateLinkStep == cl' # cl

(* a createLink step leaves every click and every stored link as it was, and
   a link it stores has its three counters at 0; a call that resolved to a
   stored link names a link whose row the step did not touch *)
C32_Step ==
  C32_CreateLinkStep =>
    /\ clicks' = clicks
    /\ Len(links') >= Len(links)
    /\ \A l \in LinkIds : links'[l] = links[l]
    /\ \A l \in (1..Len(links')) \ LinkIds :
         /\ links'[l].totalClicks = 0
         /\ links'[l].validClicks = 0
         /\ links'[l].rewardAmountCents = 0
    /\ \A i \in 1..Len(cl') :
         (cl'[i].pc = "done" /\ ~cl'[i].inserted /\ (i > Len(cl) \/ cl[i].pc # "done"))
           => cl'[i].result \in LinkIds /\ links'[cl'[i].result] = links[cl'[i].result]

(* C32: createLink changes no counter of any Link and no Click: a link it
   creates starts with totalClicks = validClicks = rewardAmountCents = 0, and
   a createLink that resolves to an existing link returns it with its
   counters untouched. *)
C32_CreateLinkFrame == [][C32_Step]_vars

(* a link clicked and credited with a reward, and a later createLink for its
   URL that returned it *)
C32_Witness ==
  \E i \in 1..Len(cl) :
    /\ cl[i].pc = "done" /\ ~cl[i].inserted
    /\ links[cl[i].result].totalClicks = 1
    /\ links[cl[i].result].validClicks = 1
    /\ links[cl[i].result].rewardAmountCents = REWARD_CENTS
    /\ Len(clicks) = 1

(* ---------------- C33 ---------------- *)
(* C33: in every reachable state, a click with rewarded = true has
   isValid = true, also when processClickReward runs more than once for the
   same click with differing oracle results: a later or concurrent invalid
   verdict never turns a rewarded click's isValid to false. *)
C33_RewardedIsValid ==
  \A c \in ClickIds : clicks[c].rewarded => clicks[c].isValid = "true"

(* ---------------- C34 ---------------- *)
(* the cents recorded on the clicks of link l *)
ClickCentsOf(l) ==
  SumOver([c \in ClickIds |-> clicks[c].rewardAmountCents], ClicksOf(l))

(* no link counter is ahead of the click rows *)
C34_State ==
  \A l \in LinkIds :
    /\ links[l].validClicks <= Cardinality(RewardedClicksOf(l))
    /\ links[l].rewardAmountCents <= ClickCentsOf(l)

(* C34: in every reachable state, each link's validClicks is at most the
   number of its clicks with rewarded = true and its rewardAmountCents is at
   most the sum of rewardAmountCents over its clicks: the link counters never
   run ahead of the click rows. *)
C34_CountersNotAhead == []C34_State

(* a link with two rewarded clicks, credited in full for one of them and with
   the valid count only for the other *)
C34_Witness ==
  \E l \in LinkIds :
    /\ Cardinality(RewardedClicksOf(l)) = 2
    /\ ClickCentsOf(l) = 2 * REWARD_CENTS
    /\ links[l].validClicks = 2
    /\ links[l].rewardAmountCents = REWARD_CENTS

(* ---------------- C35 ---------------- *)
(* the recordClick calls for link l that are still running *)
InProgressOn(l) ==
  {i \in 1..Len(rc) : rc[i].linkId = l /\ rc[i].pc \in {"saveClick", "increment", "schedule"}}

(* the recordClick calls for link l whose totalClicks increment failed *)
IncrementFailedOn(l) ==
  {i \in ThrewCalls : rc[i].linkId = l /\ rc[i].clickId # 0}

(* C35: in every reachable state, each link's totalClicks is at most the
   number of click rows that reference it, with equality whenever no
   recordClick for that link is in progress and no totalClicks increment has
   failed. *)
C35_TotalAtMostClicks ==
  \A l \in LinkIds :
    /\ links[l].totalClicks <= Cardinality(ClicksOf(l))
    /\ (InProgressOn(l) = {} /\ IncrementFailedOn(l) = {})
         => links[l].totalClicks = Cardinality(ClicksOf(l))

(* a link counted for exactly its two click rows after three calls, one of
   which failed at the click insert and stored nothing, with no call for the
   link in progress and no increment failed *)
C35_Witness ==
  \E l \in LinkIds :
    /\ InProgressOn(l) = {} /\ IncrementFailedOn(l) = {}
    /\ \E i \in ThrewCalls : rc[i].linkId = l /\ rc[i].clickId = 0
    /\ Cardinality({i \in 1..Len(rc) : rc[i].linkId = l /\ rc[i].pc = "done"}) = 2
    /\ links[l].totalClicks = 2 /\ Cardinality(ClicksOf(l)) = 2

(* ---------------- C36 ---------------- *)
(* the resolutions of click c whose guarded update matched and that a failed
   link increment ended before both increments were made *)
CutShortFor(c) ==
  {t \in TasksOf(c) : pr[t].affected = 1 /\ pr[t].caught
                       /\ pr[t].failedAt \in {"incValid", "incReward"}}

(* no resolution ends by raising; a resolution that swallowed a failure is
   finished; and a click whose matched resolution was cut short stays
   rewarded with only that resolution's increments made for it, so that its
   link's rewardAmountCents stays below what its click rows carry *)
C36_State ==
  /\ \A t \in 1..Len(pr) :
       /\ pr[t].pc \in {"oracle", "condUpdate", "incValid", "incReward", "markInvalid", "done"}
       /\ pr[t].caught => pr[t].pc = "done"
       /\ (pr[t].caught /\ pr[t].failedAt = "condUpdate")
            => pr[t].affected = 0 /\ pr[t].incValid = 0 /\ pr[t].incReward = 0
  /\ \A c \in ClickIds :
       \A t \in CutShortFor(c) :
         /\ clicks[c].rewarded
         /\ clicks[c].rewardAmountCents = REWARD_CENTS
         /\ ValidIncrementsFor(c) = pr[t].incValid
         /\ CentsIncrementsFor(c) = pr[t].incReward
         /\ pr[t].incReward = 0
         /\ links[clicks[c].linkId].rewardAmountCents < ClickCentsOf(clicks[c].linkId)

(* the step in which a statement of a resolution fails changes no row, and a
   finished resolution does nothing more *)
C36_Step ==
  \A t \in 1..Len(pr) :
    /\ (~pr[t].caught /\ pr'[t].caught) => links' = links /\ clicks' = clicks
    /\ pr[t].pc = "done" => pr'[t] = pr[t]

(* C36: processClickReward never raises, whichever of its steps fails (the
   oracle call, the conditional update, either link increment, or the
   invalid-mark update); when a failure comes after the conditional update
   matched and before both link increments were made, the click stays
   rewarded, the link stays under-credited, and no later processClickReward
   invocation for that click adds the missing increments. *)
C36_NeverRaisesNeverRepairs == []C36_State /\ [][C36_Step]_vars

(* a click whose resolution failed at the validClicks increment, and a later
   resolution of the same click, answered valid and finished, that found the
   click rewarded and credited nothing *)
C36_Witness ==
  \E c \in ClickIds : \E t \in CutShortFor(c) : \E u \in TasksOf(c) :
    /\ pr[t].failedAt = "incValid"
    /\ u # t /\ pr[u].origin = "redelivery"
    /\ pr[u].oracle = "valid" /\ pr[u].pc = "done" /\ pr[u].affected = 0
    /\ clicks[c].rewarded
    /\ ValidIncrementsFor(c) = 0 /\ CentsIncrementsFor(c) = 0
    /\ links[clicks[c].linkId].validClicks = 0
    /\ links[clicks[c].linkId].rewardAmountCents = 0
    /\ ClickCentsOf(clicks[c].linkId) = REWARD_CENTS

(* ---------------- C37 ---------------- *)
(* an amount of the response in cents *)
CentsOf(d) == d.units * 100 + d.hundredths

(* the sum of the earnings of a monthly_breakdown *)
BreakdownCents(b) ==
  SumOver([n \in 1..Len(b) |-> CentsOf(b[n].earning)], 1..Len(b))

(* nothing is in progress besides statistics queries: every recordClick call
   has ended and every reward resolution has finished *)
NothingInProgress ==
  /\ \A i \in 1..Len(rc) : rc[i].pc \in {"done", "notFound", "threw"}
  /\ \A t \in 1..Len(pr) : pr[t].pc = "done"

(* the step in which a getStats call runs its aggregation and answers, while
   nothing is in progress and the link rows are as the call has read them *)
C37_Step ==
  \A i \in 1..Len(gs) :
    ( /\ gs[i].pc = "aggregate" /\ gs'[i].pc = "done"
      /\ NothingInProgress
      /\ \A k \in 1..Len(gs[i].links) :
           gs[i].links[k] = Entity(gs[i].links[k].id) )
      => \A k \in 1..Len(gs'[i].data) :
           BreakdownCents(gs'[i].data[k].monthly_breakdown)
             = CentsOf(gs'[i].data[k].total_earning)

(* C37: for every link in a getStats response taken when no reward
   resolution is in progress and no storage operation has failed, the sum of
   the earnings in its monthly_breakdown equals its total_earning, also after
   duplicate processClickReward invocations for the same click with
   differing oracle results. *)
C37_BreakdownSumsToTotal == [][C37_Step]_vars

(* ---------------- C38 ---------------- *)
(* the number of links that meta.totalLinks leaves for the page of call i *)
RoomOnPage(i) ==
  LET rest == gs[i].totalLinks - (gs[i].page - 1) * gs[i].limit
  IN IF rest > 0 THEN rest ELSE 0

(* C38: every getStats response is consistent with its own meta, also when
   createLink calls run concurrently with it: the number of entries in data
   is at most limit and at most max(0, meta.totalLinks - (page-1)*limit), so
   data is empty whenever meta.totalLinks = 0. *)
C38_DataWithinMeta ==
  \A i \in 1..Len(gs) :
    gs[i].pc = "done"
      => /\ Len(gs[i].data) <= gs[i].limit
         /\ Len(gs[i].data) <= RoomOnPage(i)

(* ---------------- C39 ---------------- *)
(* the link that owns the click of resolution t *)
OwnerOf(t) == clicks[pr[t].clickId].linkId

(* every resolution names the link that owns its click *)
C39_State ==
  \A t \in 1..Len(pr) :
    pr[t].clickId \in ClickIds /\ pr[t].linkId = OwnerOf(t)

(* a step in which a resolution started from recordClick makes one of its
   link increments adds to that counter of the owning link and leaves every
   other link, and every other column of the owning link, as it was *)
C39_Step ==
  \A t \in 1..Len(pr) :
    pr[t].origin = "recordClick" =>
      /\ pr'[t].incValid # pr[t].incValid
           => links' = [links EXCEPT ![OwnerOf(t)].validClicks = @ + 1]
      /\ pr'[t].incReward # pr[t].incReward
           => links' = [links EXCEPT ![OwnerOf(t)].rewardAmountCents = @ + REWARD_CENTS]

(* C39: the link credited by a reward is always the rewarded click's owning
   link: every increment of validClicks or rewardAmountCents made by a reward
   resolution started from recordClick is applied to the link whose id is
   that click's linkId, and to no other link. *)
C39_OwnerCredited == []C39_State /\ [][C39_Step]_vars

(* two links, a rewarded click of the second one, the second link credited
   and the first not *)
C39_Witness ==
  /\ Len(links) = 2
  /\ \E c \in ClickIds :
       /\ clicks[c].linkId = 2 /\ clicks[c].rewarded
       /\ \E t \in StartedFor(c) : pr[t].incValid = 1 /\ pr[t].incReward = REWARD_CENTS
  /\ links[2].validClicks = 1 /\ links[2].rewardAmountCents = REWARD_CENTS
  /\ links[1].validClicks = 0 /\ links[1].rewardAmountCents = 0

====
